---- MODULE Spec2Model ----
(***************************************************************************)
(* Self-correcting multi-agent system: Solver / Critic / Judge roles, the  *)
(* Orchestrator's iteration loop and the shared SystemLogger.              *)
(*                                                                         *)
(* Numbers.  Confidences, thresholds and scores are Python floats in the   *)
(* source.  They are modelled in exact fixed point, in hundredths          *)
(* (1.0 = 100); a float that float() can return is a record                *)
(* [nan, v] so that NaN and the infinities keep Python's comparison        *)
(* semantics in min()/max().  Sums of hundredths are exact here, while the *)
(* source adds binary floats: 0.7 + 0.2 + 0.0 - 0.1 is 0.7999999999999999  *)
(* in Python and 80 here.  The inputs and thresholds used below keep the   *)
(* scores of Judge responses away from such ties with a threshold.         *)
(*                                                                         *)
(* Text.  A Python str is modelled as a sequence of lines (the result of   *)
(* str.split('\n')), a line as a sequence of tokens, a token as a TLA+     *)
(* string: a word, a number, or one of the punctuation tokens the parsers  *)
(* look at (" ", ":", "**", "_", "-", "*", "1.", ...).                     *)
(***************************************************************************)
EXTENDS Integers, Sequences, FiniteSets, TLC

(***************************************************************************)
(* Python float semantics                                                  *)
(***************************************************************************)
Scale == 100

F(n) == [nan |-> FALSE, v |-> n]
NaN == [nan |-> TRUE, v |-> 0]
PosInf == F(1000000)
NegInf == F(0 - 1000000)

\* a < b on floats: every comparison with NaN is False
FLt(a, b) == ~a.nan /\ ~b.nan /\ a.v < b.v

\* min(a, b): the first argument is kept unless the second is smaller
PyMin(a, b) == IF FLt(b, a) THEN b ELSE a
\* max(a, b): the first argument is kept unless the second is larger
PyMax(a, b) == IF FLt(a, b) THEN b ELSE a

\* min / max on the integers of the fixed-point scale
IMin(a, b) == IF b < a THEN b ELSE a
IMax(a, b) == IF b > a THEN b ELSE a

\* max(0.0, confidence): the upper clamp forgotten
Clamp01_no_upper(c) == PyMax(F(0), c)

\* max(0.0, min(1.0, confidence))
Clamp01(c) == PyMax(F(0), PyMin(F(Scale), c))

(***************************************************************************)
(* Tokens and Python str methods                                           *)
(***************************************************************************)
SP == " "
COLON == ":"
BOLD == "**"
USCORE == "_"
\* the one-character token U+2022 (bullet)
BulletDot == "<U+2022>"

EmptyLine == << >>
\* the empty string: ''.split('\n') == ['']
EmptyText == << EmptyLine >>

\* <<original, lower(), upper()>> of the words whose case matters to a parser
WordForms ==
  { <<"Answer", "answer", "ANSWER">>, <<"answer", "answer", "ANSWER">>,
    <<"Reasoning", "reasoning", "REASONING">>, <<"reasoning", "reasoning", "REASONING">>,
    <<"Evidence", "evidence", "EVIDENCE">>, <<"evidence", "evidence", "EVIDENCE">>,
    <<"Confidence", "confidence", "CONFIDENCE">>, <<"confidence", "confidence", "CONFIDENCE">>,
    <<"Assumptions", "assumptions", "ASSUMPTIONS">>,
    <<"Status", "status", "STATUS">>, <<"status", "status", "STATUS">>,
    <<"Issues", "issues", "ISSUES">>, <<"issues", "issues", "ISSUES">>,
    <<"Suggestions", "suggestions", "SUGGESTIONS">>,
    <<"Missing", "missing", "MISSING">>,
    <<"Decision", "decision", "DECISION">>, <<"decision", "decision", "DECISION">>,
    <<"Quality", "quality", "QUALITY">>, <<"quality", "quality", "QUALITY">>,
    <<"Evidence_Quality", "evidence_quality", "EVIDENCE_QUALITY">>,
    <<"Concerns", "concerns", "CONCERNS">>, <<"concerns", "concerns", "CONCERNS">>,
    <<"Note", "note", "NOTE">>, <<"note", "note", "NOTE">>,
    <<"Summary", "summary", "SUMMARY">>,
    <<"APPROVE", "approve", "APPROVE">>, <<"approve", "approve", "APPROVE">>,
    <<"Approved", "approved", "APPROVED">>,
    <<"DISAPPROVE", "disapprove", "DISAPPROVE">>,
    <<"REJECT", "reject", "REJECT">>,
    <<"PASS", "pass", "PASS">>, <<"pass", "pass", "PASS">>,
    <<"Passed", "passed", "PASSED">>,
    <<"BYPASS", "bypass", "BYPASS">>,
    <<"FAIL", "fail", "FAIL">>,
    <<"STRONG", "strong", "STRONG">>, <<"strong", "strong", "STRONG">>,
    <<"MODERATE", "moderate", "MODERATE">>,
    <<"WEAK", "weak", "WEAK">>,
    <<"NaN", "nan", "NAN">>, <<"nan", "nan", "NAN">>,
    <<"inf", "inf", "INF">>, <<"abc", "abc", "ABC">>,
    <<"four", "four", "FOUR">>, <<"x", "x", "X">>, <<"y", "y", "Y">>,
    <<"z", "z", "Z">> }

\* str.lower() / str.upper() of one token; digits and punctuation are unchanged
TokLower(t) == IF \E w \in WordForms : w[1] = t
               THEN (CHOOSE w \in WordForms : w[1] = t)[2] ELSE t
TokUpper(t) == IF \E w \in WordForms : w[1] = t
               THEN (CHOOSE w \in WordForms : w[1] = t)[3] ELSE t

Lower(line) == [i \in 1..Len(line) |-> TokLower(line[i])]
Upper(line) == [i \in 1..Len(line) |-> TokUpper(line[i])]

RECURSIVE LStrip(_, _)
\* remove the leading tokens of line that are in chars
LStrip(line, chars) ==
  IF line # << >> /\ Head(line) \in chars THEN LStrip(Tail(line), chars) ELSE line

RECURSIVE RStrip(_, _)
RStrip(line, chars) ==
  IF line # << >> /\ line[Len(line)] \in chars
  THEN RStrip(SubSeq(line, 1, Len(line) - 1), chars) ELSE line

\* str.strip(): leading and trailing whitespace removed
Strip(line) == RStrip(LStrip(line, {SP}), {SP})
\* str.strip('*')
StripStars(line) == RStrip(LStrip(line, {BOLD, "*"}), {BOLD, "*"})

\* str.replace(tok, '') / str.replace(a, b) for single-character tokens
Remove(line, tok) == SelectSeq(line, LAMBDA t : t # tok)
Replace(line, a, b) == [i \in 1..Len(line) |-> IF line[i] = a THEN b ELSE line[i]]

RECURSIVE Concat(_)
\* the str a token sequence stands for
Concat(line) == IF line = << >> THEN "" ELSE Head(line) \o Concat(Tail(line))

\* number of occurrences of tok in line (str.count)
Count(line, tok) == Cardinality({i \in 1..Len(line) : line[i] = tok})

\* index of the first occurrence of tok (line contains tok)
IndexOf(line, tok) == CHOOSE i \in 1..Len(line) :
                        line[i] = tok /\ \A j \in 1..(i - 1) : line[j] # tok

\* line.split(':', 1) == [header, content] when ':' in line
SplitHeader(line) == SubSeq(line, 1, IndexOf(line, COLON) - 1)
SplitContent(line) == SubSeq(line, IndexOf(line, COLON) + 1, Len(line))

\* line.startswith('**') / line.endswith('**')
StartsWithBold(line) == line # << >> /\ line[1] = BOLD
EndsWithBold(line) == line # << >> /\ line[Len(line)] = BOLD

RECURSIVE DropEmptyHead(_)
DropEmptyHead(lines) ==
  IF lines # << >> /\ Strip(Head(lines)) = << >> THEN DropEmptyHead(Tail(lines)) ELSE lines

RECURSIVE DropEmptyTail(_)
DropEmptyTail(lines) ==
  IF lines # << >> /\ Strip(lines[Len(lines)]) = << >>
  THEN DropEmptyTail(SubSeq(lines, 1, Len(lines) - 1)) ELSE lines

\* str.strip() of a multi-line str: whitespace, newlines included, is removed
\* at both ends
TextStrip(text) ==
  LET core == DropEmptyTail(DropEmptyHead(text)) IN
    IF core = << >> THEN EmptyText
    ELSE [i \in 1..Len(core) |->
            IF i = 1 /\ i = Len(core) THEN Strip(core[i])
            ELSE IF i = 1 THEN LStrip(core[i], {SP})
            ELSE IF i = Len(core) THEN RStrip(core[i], {SP})
            ELSE core[i]]

\* '\n'.join(lines); joining no line gives ''
Join(lines) == IF lines = << >> THEN EmptyText ELSE lines

\* dict.get(key, default)
Get(d, key, default) == IF key \in DOMAIN d THEN d[key] ELSE default
\* d[key] = value
Put(d, key, value) == [k \in DOMAIN d \cup {key} |-> IF k = key THEN value ELSE d[k]]
EmptyDict == [k \in {} |-> EmptyText]

\* "needle in text" for a needle that is a substring of a single word
Contains(text, words) == \E i \in 1..Len(text) : \E j \in 1..Len(text[i]) : text[i][j] \in words
TextUpper(text) == [i \in 1..Len(text) |-> Upper(text[i])]

\* float(str): the tokens float() accepts, in hundredths
NumTokens ==
  { <<"0.0", F(0)>>, <<"0.2", F(20)>>, <<"0.4", F(40)>>, <<"0.5", F(50)>>,
    <<"0.7", F(70)>>, <<"0.8", F(80)>>, <<"0.85", F(85)>>, <<"0.9", F(90)>>,
    <<"0.95", F(95)>>, <<"1.0", F(100)>>, <<"1.5", F(150)>>, <<"5.0", F(500)>>,
    <<"-0.5", F(0 - 50)>>, <<"-3", F(0 - 300)>>,
    <<"nan", NaN>>, <<"NaN", NaN>>, <<"inf", PosInf>>, <<"-inf", NegInf>> }

IsNumToken(t) == \E n \in NumTokens : n[1] = t
NumValue(t) == (CHOOSE n \in NumTokens : n[1] = t)[2]

\* float(text) succeeds iff, surrounding whitespace aside, text is one numeric token
FloatOk(text) ==
  LET s == TextStrip(text) IN Len(s) = 1 /\ Len(s[1]) = 1 /\ IsNumToken(s[1][1])
FloatOf(text) == NumValue(TextStrip(text)[1][1])

(***************************************************************************)
(* Character counts (len(str), str[:n])                                    *)
(***************************************************************************)
MaxPad == 520
\* a filler token standing for k characters of body text without structure
Pad(k) == "PAD" \o ToString(k)
PadNames == {Pad(k) : k \in 1..MaxPad}
IsPad(t) == t \in PadNames
TokLen(t) == IF IsPad(t) THEN CHOOSE k \in 1..MaxPad : Pad(k) = t
             ELSE IF t = BulletDot THEN 1 ELSE Len(t)

RECURSIVE LineLen(_)
LineLen(line) == IF line = << >> THEN 0 ELSE TokLen(Head(line)) + LineLen(Tail(line))

RECURSIVE CharLen(_)
\* len(text): the characters of the lines and one '\n' between two lines
CharLen(text) ==
  IF Len(text) = 1 THEN LineLen(text[1])
  ELSE LineLen(Head(text)) + 1 + CharLen(Tail(text))

RECURSIVE LinePrefix(_, _)
\* line[:n]; a filler token is cut where the slice ends
LinePrefix(line, n) ==
  IF line = << >> \/ n <= 0 THEN << >>
  ELSE IF TokLen(Head(line)) <= n
       THEN << Head(line) >> \o LinePrefix(Tail(line), n - TokLen(Head(line)))
       ELSE IF IsPad(Head(line)) THEN << Pad(n) >> ELSE << >>

RECURSIVE Prefix(_, _)
\* text[:n]
Prefix(text, n) ==
  IF Len(text) = 1 \/ LineLen(Head(text)) >= n THEN << LinePrefix(Head(text), n) >>
  ELSE << Head(text) >> \o Prefix(Tail(text), n - LineLen(Head(text)) - 1)

\* text + suffix, for a suffix without newline
Append1(text, tok) ==
  [i \in 1..Len(text) |-> IF i = Len(text) THEN Append(text[i], tok) ELSE text[i]]

(***************************************************************************)
(* Section parser: _extract_sections of the three roles                    *)
(***************************************************************************)
SolverFields == {"answer", "reasoning", "evidence", "confidence", "assumptions"}
CriticFields == {"status", "issues", "suggestions", "missing", "confidence"}
JudgeFields == {"decision", "confidence", "reasoning", "evidence_quality", "concerns"}

\* No section is open: current_section is None (or '', both are falsy)
NoSection == ""

\* unlabelled content saved under a fallback field instead of being dropped
SaveSection_fallback_field(st) ==
  IF st.content # << >>
  THEN Put(st.sections, IF st.cur # NoSection THEN st.cur ELSE "text",
           TextStrip(Join(st.content)))
  ELSE st.sections

\* "if current_section and current_content: sections[current_section] = ..."
SaveSection(st) ==
  IF st.cur # NoSection /\ st.content # << >>
  THEN Put(st.sections, st.cur, TextStrip(Join(st.content)))
  ELSE st.sections

\* line.strip('*').lower().replace(':', '').strip()
BoldKey(line) == Concat(Strip(Remove(Lower(StripStars(line)), COLON)))

\* the colon-style test of each role
ColonStyle(role, line) ==
  IF role = "Solver" THEN Count(line, COLON) = 1   \* len(line.split(':')) == 2
  ELSE Count(line, COLON) >= 1                     \* len(line.split(':', 1)) == 2

\* header.lower().strip(), and for the Judge .replace(' ', '_')
HeaderClean(role, header) ==
  IF role = "Judge" THEN Concat(Replace(Strip(Lower(header)), SP, USCORE))
  ELSE Concat(Strip(Lower(header)))

AllowList(role) ==
  IF role = "Solver" THEN SolverFields
  ELSE IF role = "Critic" THEN CriticFields ELSE JudgeFields

\* one pass of "for line in lines"
SectionStep(role, st, rawline) ==
  LET line == Strip(rawline) IN
    IF StartsWithBold(line) /\ EndsWithBold(line)
    THEN [sections |-> SaveSection(st), cur |-> BoldKey(line), content |-> << >>]
    ELSE IF ColonStyle(role, line)
    THEN LET header == SplitHeader(line)
             content == Strip(SplitContent(line))
             header_clean == HeaderClean(role, header)
         IN IF header_clean \in AllowList(role)
            THEN [sections |-> SaveSection(st), cur |-> header_clean,
                  content |-> IF content # << >> THEN << content >> ELSE << >>]
            ELSE [st EXCEPT !.content = Append(st.content, line)]
    ELSE [st EXCEPT !.content = Append(st.content, line)]

RECURSIVE SectionLoop(_, _, _)
\* "for line in lines"; the state after a line is bound as a value (next), so
\* that it is computed once however often the rest of the loop reads it
SectionLoop(role, st, lines) ==
  IF lines = << >> THEN st
  ELSE CHOOSE final \in {SectionLoop(role, next, Tail(lines)) :
                           next \in {SectionStep(role, st, Head(lines))}} : TRUE

ExtractSections(role, text) ==
  SaveSection(SectionLoop(role,
      [sections |-> EmptyDict, cur |-> NoSection, content |-> << >>], text))

Solver_extract_sections(text) == ExtractSections("Solver", text)
Critic_extract_sections(text) == ExtractSections("Critic", text)
Judge_extract_sections(text) == ExtractSections("Judge", text)

(***************************************************************************)
(* _parse_list_section (Critic and Judge, identical code)                  *)
(***************************************************************************)
\* the bullet markers '-', '*' and U+2022
Bullets == {"-", "*", BulletDot}
\* f"{i}. " for i in range(1, 10)
Numbering == {"1.", "2.", "3.", "4.", "5.", "6.", "7.", "8.", "9."}

HasPrefix(line, toks) == Len(line) >= 2 /\ line[1] \in toks /\ line[2] = SP

ListItem(rawline) ==
  LET line == Strip(rawline) IN
    IF HasPrefix(line, Bullets) THEN Strip(SubSeq(line, 3, Len(line)))           \* line[2:].strip()
    ELSE IF HasPrefix(line, Numbering) THEN Strip(SubSeq(line, 3, Len(line)))    \* line.split('. ', 1)[1].strip()
    ELSE line

RECURSIVE ListLoop(_)
ListLoop(lines) ==
  IF lines = << >> THEN << >>
  ELSE IF Strip(Head(lines)) = << >> \/ ListItem(Head(lines)) = << >>
       THEN ListLoop(Tail(lines))
       ELSE << ListItem(Head(lines)) >> \o ListLoop(Tail(lines))

parse_list_section(text) == IF text = EmptyText THEN << >> ELSE ListLoop(text)

(***************************************************************************)
(* Confidence field: float(text.strip().replace("confidence:", "").strip())*)
(***************************************************************************)
\* a one-line str literal
Lit(s) == << << s >> >>

RECURSIVE RemoveConfLabel(_)
\* line.replace("confidence:", "")
RemoveConfLabel(line) ==
  IF line = << >> THEN << >>
  ELSE IF Len(line) >= 2 /\ line[1] = "confidence" /\ line[2] = COLON
       THEN RemoveConfLabel(SubSeq(line, 3, Len(line)))
       ELSE << Head(line) >> \o RemoveConfLabel(Tail(line))

ConfidenceText(text) ==
  LET s == TextStrip(text) IN
    TextStrip([i \in 1..Len(s) |-> RemoveConfLabel(s[i])])

\* try: confidence = max(0.0, min(1.0, float(...)))  except: confidence = fallback
ParseConfidence(text, fallback) ==
  IF FloatOk(ConfidenceText(text))
  THEN Clamp01(FloatOf(ConfidenceText(text))).v
  ELSE fallback

(***************************************************************************)
(* Solver                                                                  *)
(***************************************************************************)
AnswerCap == 500

SolverParseFallback == 50

Solver_parse_response(raw) ==
  LET sections == Solver_extract_sections(raw) IN
    [answer |-> Get(sections, "answer",
                    IF CharLen(raw) > AnswerCap
                    THEN Append1(Prefix(raw, AnswerCap), "...") ELSE raw),
     reasoning |-> Get(sections, "reasoning", Lit("No explicit reasoning provided")),
     evidence |-> Get(sections, "evidence", Lit("No evidence cited")),
     confidence |-> ParseConfidence(Get(sections, "confidence", Lit("0.5")), SolverParseFallback),
     assumptions |-> Get(sections, "assumptions", Lit("No assumptions stated")),
     tool_calls |-> << >>]

\* the except branch of solve
SolverFailure(err) ==
  [answer |-> << << "I encountered an error while solving this problem: ", err >> >>,
   reasoning |-> Lit("Unable to process due to technical error"),
   evidence |-> Lit("No evidence available due to error"),
   confidence |-> 0,
   assumptions |-> Lit("Error occurred during processing"),
   tool_calls |-> << >>]

(***************************************************************************)
(* Critic                                                                  *)
(***************************************************************************)
\* the words whose upper() contains "APPROVE"
ApproveWords == {"APPROVE", "APPROVED", "DISAPPROVE"}

CriticParseFallback == 50

Critic_parse_response(raw) ==
  LET sections == Critic_extract_sections(raw)
      status_text == TextStrip(TextUpper(Get(sections, "status", Lit("REJECT"))))
  IN [status |-> IF Contains(status_text, ApproveWords) THEN "APPROVE" ELSE "REJECT",
      issues |-> parse_list_section(Get(sections, "issues", EmptyText)),
      suggestions |-> parse_list_section(Get(sections, "suggestions", EmptyText)),
      missing |-> parse_list_section(Get(sections, "missing", EmptyText)),
      confidence |-> ParseConfidence(Get(sections, "confidence", Lit("0.5")), CriticParseFallback),
      detailed_feedback |-> raw]

\* the parse default 0.5 kept on the failure path
CriticFailure_default_confidence(err) ==
  [status |-> "REJECT",
   issues |-> << << "Technical error during critique: ", err >> >>,
   suggestions |-> << << "Please retry the critique process" >> >>,
   missing |-> << << "Unable to complete analysis due to error" >> >>,
   confidence |-> 50,
   detailed_feedback |-> << << "Critique failed due to error: ", err >> >>]

\* the except branch of critique
CriticFailure(err) ==
  [status |-> "REJECT",
   issues |-> << << "Technical error during critique: ", err >> >>,
   suggestions |-> << << "Please retry the critique process" >> >>,
   missing |-> << << "Unable to complete analysis due to error" >> >>,
   confidence |-> 0,
   detailed_feedback |-> << << "Critique failed due to error: ", err >> >>]

\* get_improvement_priority
get_improvement_priority(critique) ==
  IF critique.status = "APPROVE" THEN "LOW"
  ELSE IF Len(critique.issues) >= 3 \/ critique.confidence < 30 THEN "HIGH"
  ELSE IF Len(critique.issues) >= 1 \/ critique.confidence < 60 THEN "MEDIUM"
  ELSE "LOW"

(***************************************************************************)
(* Judge                                                                   *)
(***************************************************************************)
\* the words whose upper() contains "PASS"
PassWords == {"PASS", "PASSED", "BYPASS"}
StrongWords == {"STRONG"}
ModerateWords == {"MODERATE"}

JudgeParseFallback == 0

\* the concerns penalty without its 0.2 cap
calculate_validation_score_uncapped(decision, confidence, evidence_quality, concerns) ==
  LET base_score == IF decision = "PASS" THEN 70 ELSE 20
      confidence_adjustment == (confidence * 20) \div Scale
      evidence_adjustment == IF evidence_quality = "STRONG" THEN 10
                             ELSE IF evidence_quality = "MODERATE" THEN 5 ELSE 0
      concern_penalty == Len(concerns) * 5
      final_score == base_score + confidence_adjustment + evidence_adjustment - concern_penalty
  IN IMax(0, IMin(Scale, final_score))

\* the decision gate dropped: any confident, well-scored response is accepted
should_accept_any_decision(judge_response, threshold) ==
  /\ judge_response.confidence >= threshold
  /\ judge_response.validation_score >= threshold

\* _calculate_validation_score; confidence is a multiple of 0.05 in every
\* input of the model, so confidence * 0.2 is exact in hundredths
calculate_validation_score(decision, confidence, evidence_quality, concerns) ==
  LET base_score == IF decision = "PASS" THEN 70 ELSE 20
      confidence_adjustment == (confidence * 20) \div Scale
      evidence_adjustment == IF evidence_quality = "STRONG" THEN 10
                             ELSE IF evidence_quality = "MODERATE" THEN 5 ELSE 0
      concern_penalty == IMin(Len(concerns) * 5, 20)
      final_score == base_score + confidence_adjustment + evidence_adjustment - concern_penalty
  IN IMax(0, IMin(Scale, final_score))

\* the decision defaulting to PASS when no decision field was extracted
Judge_parse_response_pass_default(raw) ==
  LET sections == Judge_extract_sections(raw)
      decision_text == TextStrip(TextUpper(Get(sections, "decision", Lit("PASS"))))
      decision == IF Contains(decision_text, PassWords) THEN "PASS" ELSE "FAIL"
      confidence == ParseConfidence(Get(sections, "confidence", Lit("0.0")), JudgeParseFallback)
      evidence_text == TextStrip(TextUpper(Get(sections, "evidence_quality", Lit("WEAK"))))
      evidence_quality == IF Contains(evidence_text, StrongWords) THEN "STRONG"
                          ELSE IF Contains(evidence_text, ModerateWords) THEN "MODERATE"
                          ELSE "WEAK"
      concerns == parse_list_section(Get(sections, "concerns", EmptyText))
  IN [decision |-> decision,
      confidence |-> confidence,
      reasoning |-> Get(sections, "reasoning", raw),
      evidence_quality |-> evidence_quality,
      concerns |-> concerns,
      validation_score |-> calculate_validation_score(decision, confidence, evidence_quality, concerns)]

Judge_parse_response(raw) ==
  LET sections == Judge_extract_sections(raw)
      decision_text == TextStrip(TextUpper(Get(sections, "decision", Lit("FAIL"))))
      decision == IF Contains(decision_text, PassWords) THEN "PASS" ELSE "FAIL"
      confidence == ParseConfidence(Get(sections, "confidence", Lit("0.0")), JudgeParseFallback)
      evidence_text == TextStrip(TextUpper(Get(sections, "evidence_quality", Lit("WEAK"))))
      evidence_quality == IF Contains(evidence_text, StrongWords) THEN "STRONG"
                          ELSE IF Contains(evidence_text, ModerateWords) THEN "MODERATE"
                          ELSE "WEAK"
      concerns == parse_list_section(Get(sections, "concerns", EmptyText))
  IN [decision |-> decision,
      confidence |-> confidence,
      reasoning |-> Get(sections, "reasoning", raw),
      evidence_quality |-> evidence_quality,
      concerns |-> concerns,
      validation_score |-> calculate_validation_score(decision, confidence, evidence_quality, concerns)]

\* a failed Judge call answered with a passing response
JudgeFailure_pass(err) ==
  [decision |-> "PASS",
   confidence |-> Scale,
   reasoning |-> << << "Validation failed due to technical error: ", err >> >>,
   evidence_quality |-> "WEAK",
   concerns |-> << << "Technical error during validation: ", err >> >>,
   validation_score |-> Scale]

\* the except branch of validate
JudgeFailure(err) ==
  [decision |-> "FAIL",
   confidence |-> 0,
   reasoning |-> << << "Validation failed due to technical error: ", err >> >>,
   evidence_quality |-> "WEAK",
   concerns |-> << << "Technical error during validation: ", err >> >>,
   validation_score |-> 0]

\* should_accept without the validation_score gate
should_accept_confidence_only(judge_response, threshold) ==
  /\ judge_response.decision = "PASS"
  /\ judge_response.confidence >= threshold

should_accept(judge_response, threshold) ==
  /\ judge_response.decision = "PASS"
  /\ judge_response.confidence >= threshold
  /\ judge_response.validation_score >= threshold

\* get_rejection_reason: the text is kept as its list of <<reason, value>> parts
get_rejection_reason(judge_response) ==
  IF judge_response.decision = "PASS" THEN << <<"Response was not rejected", 0>> >>
  ELSE LET reasons ==
             (IF judge_response.confidence < 50
              THEN << <<"Low confidence", judge_response.confidence>> >> ELSE << >>)
             \o (IF judge_response.evidence_quality = "WEAK"
                 THEN << <<"Weak evidence quality", 0>> >> ELSE << >>)
             \o (IF judge_response.concerns # << >>
                 THEN << <<"concerns identified", Len(judge_response.concerns)>> >> ELSE << >>)
             \o (IF judge_response.validation_score < 50
                 THEN << <<"Low validation score", judge_response.validation_score>> >> ELSE << >>)
       IN << <<"Rejection reasons: ", 0>> >>
            \o (IF reasons = << >> THEN << <<"Failed general validation criteria", 0>> >> ELSE reasons)

(***************************************************************************)
(* Role calls: solve / critique / validate as functions of what the        *)
(* completion provider does.  An outcome is                                *)
(*   [kind |-> "text", text |-> t]   message.content is the str t          *)
(*   [kind |-> "none"]               message.content is None               *)
(*   [kind |-> "raise", err |-> e]   chat.completions.create raises e      *)
(***************************************************************************)
TextOutcome(t) == [kind |-> "text", text |-> t, err |-> ""]
NoneOutcome == [kind |-> "none", text |-> EmptyText, err |-> ""]
RaiseOutcome(e) == [kind |-> "raise", text |-> EmptyText, err |-> e]

\* str(e) of the exception the try block of a role call ends with
ErrorText(out) ==
  IF out.kind = "raise" THEN out.err
  ELSE "'NoneType' object has no attribute 'split'"   \* _extract_sections(None)

solve(out) ==
  IF out.kind = "text" THEN Solver_parse_response(out.text) ELSE SolverFailure(ErrorText(out))

critique(out) ==
  IF out.kind = "text" THEN Critic_parse_response(out.text) ELSE CriticFailure(ErrorText(out))

validate(out) ==
  IF out.kind = "text" THEN Judge_parse_response(out.text) ELSE JudgeFailure(ErrorText(out))

\* the AgentInteraction a role call appends through log_agent_interaction;
\* question stands for the input_prompt (it embeds the caller's question)
Interaction(agent_type, question, out, confidence) ==
  [agent_type |-> agent_type,
   question |-> question,
   output |-> IF out.kind = "text" THEN "raw_response" ELSE "ERROR: " \o ErrorText(out),
   confidence |-> IF out.kind = "text" THEN confidence ELSE 0]

(***************************************************************************)
(* Orchestrator._build_revision_context                                    *)
(***************************************************************************)
\* f"{i}. {item}\n" for i, item in enumerate(items, 1)
Numbered(items) == [i \in 1..Len(items) |-> << ToString(i) \o ".", SP >> \o items[i]]

GuidanceSection(heading, items) ==
  IF items = << >> THEN << >>
  ELSE << << heading >> >> \o Numbered(items) \o << EmptyLine >>

build_revision_context(original_context, critic_response) ==
  (IF original_context # EmptyText THEN original_context \o << EmptyLine >> ELSE << >>)
  \o << << "REVISION GUIDANCE:" >>,
        << "The previous solution was critiqued. Please address the following:" >>,
        EmptyLine >>
  \o GuidanceSection("Issues to fix:", critic_response.issues)
  \o GuidanceSection("Suggestions to implement:", critic_response.suggestions)
  \o GuidanceSection("Missing information to add:", critic_response.missing)
  \o << << "Please provide an improved solution that addresses these points." >> >>

(***************************************************************************)
(* State                                                                   *)
(***************************************************************************)
VARIABLES
  cfg,       \* the SystemConfig handed to Orchestrator.__init__
  orch,      \* outcome of Orchestrator.__init__
  provider,  \* what the completion provider may do, per role
  pc,        \* position of each process() call
  loc,       \* local variables of each process() call
  result,    \* what each process() call returned
  logger,    \* the global SystemLogger: current_session, interactions
  files,     \* the session files in log_dir, by session id
  calls,     \* history: the role calls each process() call has made
  apply      \* a single function application: its arguments and its value

vars == << cfg, orch, provider, pc, loc, result, logger, files, calls, apply >>

\* the session ids uuid4() hands out; one process() call each
Sessions == {"s1", "s2"}
Roles == {"Solver", "Critic", "Judge"}

\* largest max_iterations of the model
MaxIter == 3

ThresholdValues == {0, 50, 80}
Contexts == {EmptyText, Lit("ctx")}
QuestionOf(s) == "question of " \o s

\* Optional[...] values: None is << >>, a value x is << x >>
None == << >>
Some(x) == << x >>

NoReason == [text |-> "", n |-> 0, detail |-> << >>]

InitLoc ==
  [question |-> "", context |-> EmptyText, iteration |-> 0, iterations |-> << >>,
   current_response |-> None, accepted |-> FALSE, final_confidence |-> 0,
   solver_response |-> None, critic_response |-> None, judge_response |-> None,
   iteration_accepted |-> FALSE, reason |-> NoReason,
   error |-> "",           \* str(e) in the except clause of process
   loop_error |-> FALSE,   \* history: e was raised inside the for loop
   raised |-> ""]          \* the exception process() ends with, if any

NoResult == [kind |-> "none"]
NoApply == [fn |-> "none"]

(***************************************************************************)
(* SystemLogger                                                            *)
(***************************************************************************)
NewLogger == [current_session |-> None, interactions |-> << >>]

\* a session begun without emptying the interaction buffer
start_session_keep_entries(lg, session_id, question, context) ==
  [current_session |-> Some([session_id |-> session_id, question |-> question,
                             context |-> context, final_answer |-> EmptyText,
                             decision |-> "", confidence |-> 0, iterations |-> 0,
                             interactions |-> << >>, metadata |-> [k \in {} |-> 0]]),
   interactions |-> lg.interactions]

start_session(lg, session_id, question, context) ==
  [current_session |-> Some([session_id |-> session_id, question |-> question,
                             context |-> context, final_answer |-> EmptyText,
                             decision |-> "", confidence |-> 0, iterations |-> 0,
                             interactions |-> << >>, metadata |-> [k \in {} |-> 0]]),
   interactions |-> << >>]

log_agent_interaction(lg, interaction) ==
  [lg EXCEPT !.interactions = Append(@, interaction)]

\* end_session raises ValueError("No active session to end")
end_session_no_session(lg) == lg.current_session = None

\* the SystemExecution end_session fills in before _save_session
ended_session(lg, final_answer, decision, confidence, iterations, metadata) ==
  IF lg.current_session = None THEN None
  ELSE
  [lg.current_session[1] EXCEPT !.final_answer = final_answer, !.decision = decision,
                                !.confidence = confidence, !.iterations = iterations,
                                !.interactions = lg.interactions, !.metadata = metadata]

\* _save_session: json.dump to session_{session_id}_{timestamp}.json
save_session(fs, session) == Put(fs, session.session_id, session)

\* the three ways an end_session call can go:
\*   "no_session"  ValueError, nothing changed
\*   "io_error"    open()/json.dump raised in _save_session: the session keeps
\*                 the fields already assigned, nothing is reset
\*   "ok"          file written, current_session and interactions reset
end_session_logger(lg, how, session) ==
  IF how = "ok" THEN NewLogger
  ELSE IF how = "io_error" THEN [lg EXCEPT !.current_session = Some(session)]
  ELSE lg

EndSessionWays(lg) == IF end_session_no_session(lg) THEN {"no_session"} ELSE {"ok", "io_error"}
EndSessionError(how) ==
  IF how = "no_session" THEN "No active session to end" ELSE "[Errno 2] No such file or directory"

(***************************************************************************)
(* utils.config.validate_config and Orchestrator.__init__                  *)
(***************************************************************************)
\* the range check of the threshold left out
validate_config_no_threshold(config) ==
  IF ~config.openai_api_key THEN "OPENAI_API_KEY is required"
  ELSE IF config.max_iterations < 1 THEN "max_iterations must be at least 1"
  ELSE "ok"

\* the message of the ValueError validate_config raises, "ok" when it returns
validate_config(config) ==
  IF ~config.openai_api_key THEN "OPENAI_API_KEY is required"
  ELSE IF config.max_iterations < 1 THEN "max_iterations must be at least 1"
  ELSE IF ~(0 <= config.judge_confidence_threshold /\ config.judge_confidence_threshold <= Scale)
       THEN "judge_confidence_threshold must be between 0.0 and 1.0"
  ELSE "ok"

Construct ==
  /\ orch.state = "new"
  /\ orch' = IF validate_config(cfg) = "ok"
             THEN [state |-> "ready", error |-> "", agents |-> Roles]
             ELSE [state |-> "ValueError", error |-> validate_config(cfg), agents |-> {}]
  /\ UNCHANGED << cfg, provider, pc, loc, result, logger, files, calls, apply >>

(***************************************************************************)
(* Orchestrator.process, one action per blocking step                      *)
(***************************************************************************)
\* history entry of a role call: its arguments and what the provider did
Call(role, iteration, question, answer, context, out) ==
  [role |-> role, iteration |-> iteration, question |-> question,
   answer |-> answer, context |-> context, out |-> out]

\* compare_single_vs_multi_agent, lines 297-300: the bare Solver call made
\* before process is called (line 303); its response stays in a local of
\* compare_single_vs_multi_agent, only the logger is changed
CompareSolve(s) ==
  /\ orch.state = "ready"
  /\ pc[s] = "idle"
  /\ \E out \in provider["Solver"] :
       logger' = log_agent_interaction(logger,
                   Interaction("Solver", QuestionOf(s), out, solve(out).confidence))
  /\ pc' = [pc EXCEPT ![s] = "compared"]
  /\ UNCHANGED << cfg, orch, provider, loc, result, files, calls, apply >>

\* lines 71-80: session id, logger.start_session, the locals; process is
\* called directly or from compare_single_vs_multi_agent
ProcessStart(s) ==
  /\ orch.state = "ready"
  /\ pc[s] \in {"idle", "compared"}
  /\ \E context \in Contexts :
       /\ logger' = start_session(logger, s, QuestionOf(s), context)
       /\ loc' = [loc EXCEPT ![s] = [InitLoc EXCEPT !.question = QuestionOf(s),
                                                    !.context = context,
                                                    !.iteration = 1]]
  /\ pc' = [pc EXCEPT ![s] = "solve"]
  /\ UNCHANGED << cfg, orch, provider, result, files, calls, apply >>

\* every retry made with the original context, the Critic feedback dropped
SolverContext_original_only(l) == l.context

\* the guidance accumulating the issues of every earlier iteration
SolverContext_cumulative(l) ==
  IF l.iteration = 1 THEN l.context
  ELSE LET its == l.iterations
           issues[i \in 0..Len(its)] ==
             IF i = 0 THEN << >> ELSE issues[i - 1] \o its[i].critic_response[1].issues
       IN build_revision_context(l.context,
            [its[Len(its)].critic_response[1] EXCEPT !.issues = issues[Len(its)]])

\* lines 86-94: the Solver call of this iteration
SolverContext(l) ==
  IF l.iteration = 1 THEN l.context
  ELSE build_revision_context(l.context, l.iterations[Len(l.iterations)].critic_response[1])

Solve(s) ==
  /\ pc[s] = "solve"
  /\ \E out \in provider["Solver"] :
       LET l == loc[s]
           solver_response == solve(out)
       IN /\ logger' = log_agent_interaction(logger,
                         Interaction("Solver", l.question, out, solver_response.confidence))
          /\ calls' = [calls EXCEPT ![s] =
                         Append(@, Call("Solver", l.iteration, l.question, None, SolverContext(l), out))]
          /\ loc' = [loc EXCEPT ![s].solver_response = Some(solver_response)]
  /\ pc' = [pc EXCEPT ![s] = "critique"]
  /\ UNCHANGED << cfg, orch, provider, result, files, apply >>

\* the Judge consulted whatever the Critic said
NextAfterCritique_always_judge(critic_response) == "judge"

\* line 107: the Judge is consulted only on a Critic approval
NextAfterCritique(critic_response) ==
  IF critic_response.status = "APPROVE" THEN "judge" ELSE "record"

\* lines 98-107 and 119-120: the Critic call; a rejection goes on to record
Critique(s) ==
  /\ pc[s] = "critique"
  /\ \E out \in provider["Critic"] :
       LET l == loc[s]
           critic_response == critique(out)
       IN /\ logger' = log_agent_interaction(logger,
                         Interaction("Critic", l.question, out, critic_response.confidence))
          /\ calls' = [calls EXCEPT ![s] =
                         Append(@, Call("Critic", l.iteration, l.question,
                                        Some(l.solver_response[1].answer), l.context, out))]
          /\ loc' = [loc EXCEPT ![s].critic_response = Some(critic_response),
                                ![s].judge_response = None,
                                ![s].iteration_accepted = FALSE,
                                ![s].reason =
                                   IF NextAfterCritique(critic_response) = "judge" THEN NoReason
                                   ELSE [text |-> "Critic rejected with n issues",
                                         n |-> Len(critic_response.issues), detail |-> << >>]]
          /\ pc' = [pc EXCEPT ![s] = NextAfterCritique(critic_response)]
  /\ UNCHANGED << cfg, orch, provider, result, files, apply >>

\* lines 108-118: the Judge call and the acceptance decision
Judge(s) ==
  /\ pc[s] = "judge"
  /\ \E out \in provider["Judge"] :
       LET l == loc[s]
           judge_response == validate(out)
       IN /\ logger' = log_agent_interaction(logger,
                         Interaction("Judge", l.question, out, judge_response.confidence))
          /\ calls' = [calls EXCEPT ![s] =
                         Append(@, Call("Judge", l.iteration, l.question,
                                        Some(l.solver_response[1].answer), l.context, out))]
          /\ loc' = [loc EXCEPT ![s] =
                       IF should_accept(judge_response, cfg.judge_confidence_threshold)
                       THEN [l EXCEPT !.judge_response = Some(judge_response),
                                      !.iteration_accepted = TRUE,
                                      !.accepted = TRUE,
                                      !.final_confidence = judge_response.confidence,
                                      !.reason = [text |-> "Approved by critic and passed judge validation",
                                                  n |-> 0, detail |-> << >>],
                                      !.current_response = l.solver_response]
                       ELSE [l EXCEPT !.judge_response = Some(judge_response),
                                      !.reason = [text |-> "Judge rejected: ", n |-> 0,
                                                  detail |-> get_rejection_reason(judge_response)]]]
  /\ pc' = [pc EXCEPT ![s] = "record"]
  /\ UNCHANGED << cfg, orch, provider, result, files, apply >>

\* the record numbered from 0
IterationResult_zero_based(l) ==
  [iteration |-> l.iteration - 1,
   solver_response |-> l.solver_response[1],
   critic_response |-> l.critic_response,
   judge_response |-> l.judge_response,
   accepted |-> l.iteration_accepted,
   reason |-> l.reason]

\* lines 123-130
IterationResult(l) ==
  [iteration |-> l.iteration,
   solver_response |-> l.solver_response[1],
   critic_response |-> l.critic_response,
   judge_response |-> l.judge_response,
   accepted |-> l.iteration_accepted,
   reason |-> l.reason]

\* range(1, max_iterations + 2): one pass too many
LoopEnds_one_more(iteration_accepted, iteration, max_iterations) ==
  iteration_accepted \/ iteration = max_iterations + 1

\* no break on acceptance
LoopEnds_no_break(iteration_accepted, iteration, max_iterations) ==
  iteration = max_iterations

\* line 136 (and the end of range(1, max_iterations + 1)): the loop is left
LoopEnds(iteration_accepted, iteration, max_iterations) ==
  iteration_accepted \/ iteration = max_iterations

\* the Solver's own confidence kept for an exhausted session
ExhaustedConfidence_solver_only(solver_response, critic_response) ==
  solver_response.confidence

\* line 140: the confidence of an exhausted session
ExhaustedConfidence(solver_response, critic_response) ==
  IMin(solver_response.confidence, critic_response.confidence)

\* lines 122-142: record the iteration, then break or go round again
RecordedLoc(l) ==
  LET appended == [l EXCEPT !.iterations = Append(@, IterationResult(l))] IN
    IF LoopEnds(l.iteration_accepted, l.iteration, cfg.max_iterations)
    THEN IF ~l.iteration_accepted /\ l.iteration = cfg.max_iterations
         THEN [appended EXCEPT
                 !.current_response = l.solver_response,
                 !.final_confidence = ExhaustedConfidence(l.solver_response[1],
                                                          l.critic_response[1]),
                 !.reason = [text |-> "Max iterations reached. Using best available response.",
                             n |-> 0, detail |-> << >>]]
         ELSE appended
    ELSE [appended EXCEPT !.iteration = l.iteration + 1]

Record(s) ==
  /\ pc[s] = "record"
  /\ loc' = [loc EXCEPT ![s] = RecordedLoc(loc[s])]
  /\ pc' = [pc EXCEPT ![s] =
              IF LoopEnds(loc[s].iteration_accepted, loc[s].iteration, cfg.max_iterations)
              THEN "finalize" ELSE "solve"]
  /\ UNCHANGED << cfg, orch, provider, result, logger, files, calls, apply >>

\* the result carrying the Solver's confidence instead of final_confidence
SystemResult_solver_confidence(s, l) ==
  [kind |-> "result",
   session_id |-> s,
   question |-> l.question,
   context |-> l.context,
   final_answer |-> IF l.current_response # None THEN l.current_response[1].answer
                    ELSE Lit("No solution generated"),
   accepted |-> l.accepted,
   confidence |-> IF l.current_response # None THEN l.current_response[1].confidence ELSE 0,
   iterations |-> l.iterations,
   total_iterations |-> Len(l.iterations),
   metadata |-> [max_iterations_reached |-> Len(l.iterations) >= cfg.max_iterations,
                 judge_threshold |-> cfg.judge_confidence_threshold,
                 final_reason |-> l.reason]]

\* lines 144-164
SystemResult(s, l) ==
  [kind |-> "result",
   session_id |-> s,
   question |-> l.question,
   context |-> l.context,
   final_answer |-> IF l.current_response # None THEN l.current_response[1].answer
                    ELSE Lit("No solution generated"),
   accepted |-> l.accepted,
   confidence |-> l.final_confidence,
   iterations |-> l.iterations,
   total_iterations |-> Len(l.iterations),
   metadata |-> [max_iterations_reached |-> Len(l.iterations) >= cfg.max_iterations,
                 judge_threshold |-> cfg.judge_confidence_threshold,
                 final_reason |-> l.reason]]

\* lines 179-191
ErrorResult(s, l) ==
  [kind |-> "result",
   session_id |-> s,
   question |-> l.question,
   context |-> l.context,
   final_answer |-> << << "System error: ", l.error >> >>,
   accepted |-> FALSE,
   confidence |-> 0,
   iterations |-> l.iterations,
   total_iterations |-> Len(l.iterations),
   metadata |-> [error |-> l.error]]

\* lines 144-175: build the result, end the logging session, return
Finalize(s) ==
  /\ pc[s] = "finalize"
  /\ LET r == SystemResult(s, loc[s]) IN
       \E how \in EndSessionWays(logger) :
         LET session == ended_session(logger, r.final_answer,
                                      IF r.accepted THEN "PASS" ELSE "FAIL",
                                      r.confidence, Len(r.iterations), r.metadata)
         IN /\ logger' = end_session_logger(logger, how, session)
            /\ IF how = "ok"
               THEN /\ files' = save_session(files, session)
                    /\ result' = [result EXCEPT ![s] = r]
                    /\ pc' = [pc EXCEPT ![s] = "returned"]
                    /\ loc' = loc
               ELSE /\ loc' = [loc EXCEPT ![s].error = EndSessionError(how)]
                    /\ pc' = [pc EXCEPT ![s] = "except"]
                    /\ UNCHANGED << files, result >>
  /\ UNCHANGED << cfg, orch, provider, calls, apply >>

\* an exception raised between two role calls (a print() on a closed stdout,
\* say): control goes to the except clause of process.  At "record" it is
\* raised before the append (lines 100, 109) or after it (line 133).
UnexpectedError(s) ==
  /\ pc[s] \in {"solve", "critique", "judge", "record"}
  /\ \E appended \in (IF pc[s] = "record" THEN BOOLEAN ELSE {FALSE}) :
       loc' = [loc EXCEPT ![s] =
                 [(IF appended THEN [loc[s] EXCEPT !.iterations = Append(@, IterationResult(loc[s]))]
                   ELSE loc[s])
                  EXCEPT !.error = "[Errno 32] Broken pipe", !.loop_error = TRUE]]
  /\ pc' = [pc EXCEPT ![s] = "except"]
  /\ UNCHANGED << cfg, orch, provider, result, logger, files, calls, apply >>

\* lines 177-201: the except clause; its own end_session call is unguarded
Except(s) ==
  /\ pc[s] = "except"
  /\ LET r == ErrorResult(s, loc[s]) IN
       \E how \in EndSessionWays(logger) :
         LET session == ended_session(logger, r.final_answer, "FAIL", 0,
                                      Len(r.iterations), r.metadata)
         IN /\ logger' = end_session_logger(logger, how, session)
            /\ IF how = "ok"
               THEN /\ files' = save_session(files, session)
                    /\ result' = [result EXCEPT ![s] = r]
                    /\ pc' = [pc EXCEPT ![s] = "returned"]
                    /\ loc' = loc
               ELSE /\ loc' = [loc EXCEPT ![s].raised = EndSessionError(how)]
                    /\ pc' = [pc EXCEPT ![s] = "raised"]
                    /\ UNCHANGED << files, result >>
  /\ UNCHANGED << cfg, orch, provider, calls, apply >>

(***************************************************************************)
(* get_performance_summary (lines 250-284).  A quotient of two integers is *)
(* kept as the pair of its numerator and denominator; the two latency      *)
(* entries are left out, time not being part of the state.                 *)
(***************************************************************************)
Ratio(n, d) == [num |-> n, den |-> d]

RECURSIVE SumOf(_)
SumOf(seq) == IF seq = << >> THEN 0 ELSE Head(seq) + SumOf(Tail(seq))

\* "judge_passes" counting the iterations in which the Judge was called
get_performance_summary_judge_calls(config, r) ==
  LET d == IMax(config.max_iterations - 1, 1)
      summary == [session_id |-> r.session_id,
                  success |-> r.accepted,
                  final_confidence |-> r.confidence,
                  iterations_used |-> r.total_iterations,
                  max_iterations |-> config.max_iterations,
                  efficiency |-> Ratio(d - (r.total_iterations - 1), d)]
      its == r.iterations
      solver_confidences == [i \in 1..Len(its) |-> its[i].solver_response.confidence]
      critic_confidences ==
        LET with == SelectSeq(its, LAMBDA it : it.critic_response # None)
        IN [i \in 1..Len(with) |-> with[i].critic_response[1].confidence]
  IN IF its # << >>
     THEN summary @@
          [avg_solver_confidence |-> Ratio(SumOf(solver_confidences), Len(solver_confidences)),
           final_solver_confidence |-> solver_confidences[Len(solver_confidences)],
           avg_critic_confidence |->
             IF critic_confidences # << >>
             THEN Ratio(SumOf(critic_confidences), Len(critic_confidences))
             ELSE Ratio(0, 1),
           critic_approvals |->
             Cardinality({i \in 1..Len(its) : /\ its[i].critic_response # None
                                              /\ its[i].critic_response[1].status = "APPROVE"}),
           judge_passes |->
             Cardinality({i \in 1..Len(its) : its[i].judge_response # None})]
     ELSE summary

get_performance_summary(config, r) ==
  LET d == IMax(config.max_iterations - 1, 1)
      summary == [session_id |-> r.session_id,
                  success |-> r.accepted,
                  final_confidence |-> r.confidence,
                  iterations_used |-> r.total_iterations,
                  max_iterations |-> config.max_iterations,
                  efficiency |-> Ratio(d - (r.total_iterations - 1), d)]
      its == r.iterations
      solver_confidences == [i \in 1..Len(its) |-> its[i].solver_response.confidence]
      critic_confidences ==
        LET with == SelectSeq(its, LAMBDA it : it.critic_response # None)
        IN [i \in 1..Len(with) |-> with[i].critic_response[1].confidence]
  IN IF its # << >>
     THEN summary @@
          [avg_solver_confidence |-> Ratio(SumOf(solver_confidences), Len(solver_confidences)),
           final_solver_confidence |-> solver_confidences[Len(solver_confidences)],
           avg_critic_confidence |->
             IF critic_confidences # << >>
             THEN Ratio(SumOf(critic_confidences), Len(critic_confidences))
             ELSE Ratio(0, 1),
           critic_approvals |->
             Cardinality({i \in 1..Len(its) : /\ its[i].critic_response # None
                                              /\ its[i].critic_response[1].status = "APPROVE"}),
           judge_passes |->
             Cardinality({i \in 1..Len(its) : /\ its[i].judge_response # None
                                              /\ its[i].judge_response[1].decision = "PASS"})]
     ELSE summary

\* a caller summarises the result a process() call has returned
GetPerformanceSummary(s) ==
  /\ pc[s] = "returned"
  /\ apply' = [fn |-> "summary", session |-> s,
               value |-> get_performance_summary(cfg, result[s])]
  /\ UNCHANGED << cfg, orch, provider, pc, loc, result, logger, files, calls >>

(***************************************************************************)
(* The completion provider of a run                                        *)
(***************************************************************************)
\* the line "Label: value"
Field(label, value) == << label, COLON, SP, value >>
Item(marker, value) == << marker, SP, value >>

SolverTexts ==
  [plain    |-> << Field("Answer", "four"), Field("Confidence", "0.9") >>,
   bare     |-> << << "four" >> >>,
   over     |-> << Field("Answer", "x"), Field("Confidence", "5.0") >>,
   under    |-> << Field("Answer", "y"), Field("Confidence", "-0.5") >>]

CriticTexts ==
  [approve  |-> << Field("Status", "APPROVE"), Field("Confidence", "0.85") >>,
   reject   |-> << Field("Status", "REJECT"), << "Issues", COLON >>, Item("-", "x"),
                   Item("-", "y"), Field("Suggestions", "z"), Field("Confidence", "0.7") >>,
   bare     |-> << << "abc" >> >>,
   approve5 |-> << Field("Status", "Approved"), Field("Confidence", "5.0") >>,
   rejectnan |-> << Field("Status", "REJECT"), Field("Missing", "x"), Field("Confidence", "nan") >>]

JudgeTexts ==
  [pass     |-> << Field("Decision", "PASS"), Field("Confidence", "0.95"),
                   Field("Evidence_Quality", "STRONG") >>,
   fail     |-> << Field("Decision", "FAIL"), Field("Confidence", "0.4"),
                   << "Concerns", COLON >>, Item("-", "x") >>,
   doubtful |-> << Field("Decision", "PASS"), Field("Confidence", "0.85"),
                   << "Evidence", SP, "Quality", COLON, SP, "MODERATE" >>,
                   << "Concerns", COLON >>, Item("1.", "x"), Item("2.", "y"), Item("3.", "z"),
                   Item("4.", "x"), Item("5.", "y") >>,
   over     |-> << Field("Decision", "PASS"), Field("Confidence", "5.0") >>,
   under    |-> << Field("Decision", "Passed"), Field("Confidence", "-inf"),
                   Field("Evidence_Quality", "WEAK") >>,
   bare     |-> << << "PASS" >> >>]

ProviderError == "Connection error."

\* the runs of the model: in each the provider has a small repertoire per role
Nominal ==
  [Solver |-> {TextOutcome(SolverTexts.plain), TextOutcome(SolverTexts.bare)},
   Critic |-> {TextOutcome(CriticTexts.approve), TextOutcome(CriticTexts.reject)},
   Judge  |-> {TextOutcome(JudgeTexts.pass), TextOutcome(JudgeTexts.fail),
               TextOutcome(JudgeTexts.doubtful)}]

OutOfRange ==
  [Solver |-> {TextOutcome(SolverTexts.over), TextOutcome(SolverTexts.under)},
   Critic |-> {TextOutcome(CriticTexts.approve5), TextOutcome(CriticTexts.rejectnan),
               TextOutcome(CriticTexts.bare)},
   Judge  |-> {TextOutcome(JudgeTexts.over), TextOutcome(JudgeTexts.under),
               TextOutcome(JudgeTexts.bare)}]

Failing ==
  [Solver |-> {TextOutcome(SolverTexts.plain), RaiseOutcome(ProviderError)},
   Critic |-> {TextOutcome(CriticTexts.approve), RaiseOutcome(ProviderError), NoneOutcome},
   Judge  |-> {TextOutcome(JudgeTexts.pass), RaiseOutcome(ProviderError), NoneOutcome}]

Providers == {Nominal, OutOfRange, Failing}

(***************************************************************************)
(* Specification: one process() call at a time on the shared logger        *)
(***************************************************************************)
Configs ==
  [max_iterations : 0..MaxIter,
   judge_confidence_threshold : ThresholdValues \cup {0 - 10, 150},
   openai_api_key : BOOLEAN]

Init ==
  /\ cfg \in Configs
  /\ orch = [state |-> "new", error |-> "", agents |-> {}]
  /\ provider \in Providers
  /\ pc = [s \in Sessions |-> IF s = "s1" THEN "idle" ELSE "absent"]
  /\ loc = [s \in Sessions |-> InitLoc]
  /\ result = [s \in Sessions |-> NoResult]
  /\ logger = NewLogger
  /\ files = [k \in {} |-> 0]
  /\ calls = [s \in Sessions |-> << >>]
  /\ apply = NoApply

Next ==
  \/ Construct
  \/ \E s \in Sessions : CompareSolve(s)
  \/ \E s \in Sessions : ProcessStart(s)
  \/ \E s \in Sessions : Solve(s)
  \/ \E s \in Sessions : Critique(s)
  \/ \E s \in Sessions : Judge(s)
  \/ \E s \in Sessions : Record(s)
  \/ \E s \in Sessions : Finalize(s)
  \/ \E s \in Sessions : UnexpectedError(s)
  \/ \E s \in Sessions : Except(s)
  \/ \E s \in Sessions : GetPerformanceSummary(s)

Spec == Init /\ [][Next]_vars

\* the positions of a process() call between its entry and its exit
Running == {"solve", "critique", "judge", "record", "finalize", "except"}
Positions == Running \cup {"absent", "idle", "compared", "returned", "raised"}

\* one process() call leaves its current position.  process() is sequential
\* code and every role call returns (with a response or by raising), so a
\* call that is at a position between entry and exit moves on; every step of
\* Next that belongs to a running call changes pc of that call.
Advance(s) ==
  /\ pc[s] \in Running
  /\ \E q \in Positions \ {pc[s]} : pc' = [pc EXCEPT ![s] = q]

SpecLive == Init /\ [][Next]_vars /\ \A s \in Sessions : WF_pc(Advance(s))

(***************************************************************************)
(* Specification: two process() calls interleaved.  Each call runs on its  *)
(* own Orchestrator instance built from cfg (the instances hold no state   *)
(* that process changes); both use the module-level logger of              *)
(* utils/logger.py, as every Orchestrator of one Python process does.      *)
(***************************************************************************)
\* the provider of the interleaved runs: every role call succeeds
Brief ==
  [Solver |-> {TextOutcome(SolverTexts.plain)},
   Critic |-> {TextOutcome(CriticTexts.approve)},
   Judge  |-> {TextOutcome(JudgeTexts.pass), TextOutcome(JudgeTexts.fail)}]

\* one pass per call is enough for two calls to meet on the logger
ConcurrentConfig ==
  [max_iterations |-> 1, judge_confidence_threshold |-> 80, openai_api_key |-> TRUE]

InitConcurrent ==
  /\ cfg = ConcurrentConfig
  /\ orch = [state |-> "new", error |-> "", agents |-> {}]
  /\ provider = Brief
  /\ pc = [s \in Sessions |-> "idle"]
  /\ loc = [s \in Sessions |-> InitLoc]
  /\ result = [s \in Sessions |-> NoResult]
  /\ logger = NewLogger
  /\ files = [k \in {} |-> 0]
  /\ calls = [s \in Sessions |-> << >>]
  /\ apply = NoApply

SpecConcurrent == InitConcurrent /\ [][Next]_vars

(***************************************************************************)
(* Specification: process() calls executed one after another on the        *)
(* module-level logger.  A call (or the compare_single_vs_multi_agent that  *)
(* makes it) begins only when no other call is under way.                  *)
(***************************************************************************)
\* the provider of the consecutive runs: the Critic may reject, the Judge fail
Plain ==
  [Solver |-> {TextOutcome(SolverTexts.plain)},
   Critic |-> {TextOutcome(CriticTexts.approve), TextOutcome(CriticTexts.reject)},
   Judge  |-> {TextOutcome(JudgeTexts.pass), TextOutcome(JudgeTexts.fail)}]

SequentialConfig ==
  [max_iterations |-> 2, judge_confidence_threshold |-> 80, openai_api_key |-> TRUE]

InitSequential ==
  /\ cfg = SequentialConfig
  /\ orch = [state |-> "new", error |-> "", agents |-> {}]
  /\ provider = Plain
  /\ pc = [s \in Sessions |-> "idle"]
  /\ loc = [s \in Sessions |-> InitLoc]
  /\ result = [s \in Sessions |-> NoResult]
  /\ logger = NewLogger
  /\ files = [k \in {} |-> 0]
  /\ calls = [s \in Sessions |-> << >>]
  /\ apply = NoApply

\* no other call is between its beginning and its end
Alone(s) == \A t \in Sessions \ {s} : pc[t] \notin Running \cup {"compared"}

NextSequential ==
  \/ Construct
  \/ \E s \in Sessions : Alone(s) /\ CompareSolve(s)
  \/ \E s \in Sessions : Alone(s) /\ ProcessStart(s)
  \/ \E s \in Sessions : Solve(s)
  \/ \E s \in Sessions : Critique(s)
  \/ \E s \in Sessions : Judge(s)
  \/ \E s \in Sessions : Record(s)
  \/ \E s \in Sessions : Finalize(s)
  \/ \E s \in Sessions : UnexpectedError(s)
  \/ \E s \in Sessions : Except(s)
  \/ \E s \in Sessions : GetPerformanceSummary(s)

SpecSequential == InitSequential /\ [][NextSequential]_vars

(***************************************************************************)
(* Specifications for single function applications                         *)
(***************************************************************************)
\* no Orchestrator, no session: only apply changes
Quiet ==
  /\ cfg = [max_iterations |-> 3, judge_confidence_threshold |-> 80, openai_api_key |-> TRUE]
  /\ orch = [state |-> "none", error |-> "", agents |-> {}]
  /\ provider = Nominal
  /\ pc = [s \in Sessions |-> "absent"]
  /\ loc = [s \in Sessions |-> InitLoc]
  /\ result = [s \in Sessions |-> NoResult]
  /\ logger = NewLogger
  /\ files = [k \in {} |-> 0]
  /\ calls = [s \in Sessions |-> << >>]

QuietVars == << cfg, orch, provider, pc, loc, result, logger, files, calls >>

\* JudgeAgent.should_accept on arbitrary JudgeResponse values
Grid == {0, 45, 50, 80, 85, 100}

InitShouldAccept ==
  /\ Quiet
  /\ \E d \in {"PASS", "FAIL"}, c \in Grid, v \in Grid, t \in Grid, q \in {"STRONG", "WEAK"} :
       apply = [fn |-> "should_accept",
                judge_response |-> [decision |-> d, confidence |-> c, reasoning |-> EmptyText,
                                    evidence_quality |-> q, concerns |-> << >>,
                                    validation_score |-> v],
                threshold |-> t, done |-> FALSE, value |-> FALSE]

ApplyShouldAccept ==
  /\ apply.fn = "should_accept" /\ ~apply.done
  /\ apply' = [apply EXCEPT !.done = TRUE,
                            !.value = should_accept(apply.judge_response, apply.threshold)]
  /\ UNCHANGED QuietVars

SpecShouldAccept == InitShouldAccept /\ [][ApplyShouldAccept]_vars

\* JudgeAgent.validate on generated provider responses
MaxConcerns == 5
Absent == ""
JudgeDecisionWords == {Absent, "PASS", "FAIL", "Passed"}
JudgeConfidenceWords == {Absent, "0.0", "0.5", "0.8", "0.95", "1.0", "5.0", "-0.5", "abc", "nan"}
JudgeQualityWords == {Absent, "STRONG", "MODERATE", "WEAK"}

OptField(label, word) == IF word = Absent THEN << >> ELSE << Field(label, word) >>

JudgeText(d, c, q, n) ==
  LET lines == OptField("Decision", d) \o OptField("Confidence", c)
               \o OptField("Evidence_Quality", q)
               \o (IF n = 0 THEN << >>
                   ELSE << << "Concerns", COLON >> >> \o [i \in 1..n |-> Item("-", "x")])
  IN IF lines = << >> THEN EmptyText ELSE lines

InitValidate ==
  /\ Quiet
  /\ \E out \in {TextOutcome(JudgeText(d, c, q, n)) :
                   d \in JudgeDecisionWords, c \in JudgeConfidenceWords,
                   q \in JudgeQualityWords, n \in 0..MaxConcerns}
                \cup {RaiseOutcome(ProviderError), NoneOutcome} :
       apply = [fn |-> "validate", out |-> out, done |-> FALSE, value |-> JudgeFailure("")]

ApplyValidate ==
  /\ apply.fn = "validate" /\ ~apply.done
  /\ apply' = [apply EXCEPT !.done = TRUE, !.value = validate(apply.out)]
  /\ UNCHANGED QuietVars

SpecValidate == InitValidate /\ [][ApplyValidate]_vars

\* _extract_sections and _parse_response of each role on texts of a few
\* lines, drawn from lines a provider may write: fields in colon style and in
\* bold style, headers outside the allow-list, bare words
MaxLines == 3

\* a field in the output format of the role prompts, "- **Label**: content",
\* and the same without the list marker
PromptLine(label, content) == << "-", SP, BOLD, label, BOLD, COLON, SP, content >>
BoldColonLine(label, content) == << BOLD, label, BOLD, COLON, SP, content >>

SolverLines ==
  { Field("Answer", "four"), << "Answer", COLON, SP, "x", COLON, "y" >>,
    << BOLD, "Answer", BOLD >>, << "four" >>, << BOLD, "Note", BOLD >>,
    Field("Note", "x"), Field("Confidence", "0.9"), Field("Reasoning", "y"),
    << Pad(AnswerCap + 1) >>, PromptLine("Answer", "four"),
    << "Answer", COLON >>, EmptyLine,
    Field("Confidence", "abc"), Field("Confidence", "nan") }

CriticLines ==
  { Field("Status", "APPROVE"), Field("Status", "approve"), Field("Status", "DISAPPROVE"),
    Field("Status", "REJECT"), << "Status", COLON >>, << BOLD, "Status", BOLD >>,
    << "APPROVE" >>, << BOLD, "Note", BOLD >>, Field("Note", "x"), Field("Issues", "x"),
    PromptLine("Status", "APPROVE"),
    Field("Confidence", "abc"), Field("Confidence", "nan") }

JudgeLines ==
  { Field("Decision", "PASS"), Field("Decision", "pass"), Field("Decision", "FAIL"),
    Field("Decision", "BYPASS"),
    << BOLD, "Decision", BOLD >>, << "PASS" >>, Field("Evidence_Quality", "STRONG"),
    << "Evidence", SP, "Quality", COLON, SP, "MODERATE" >>, << "STRONG" >>,
    << BOLD, "Note", BOLD >>, Field("Note", "x"),
    PromptLine("Decision", "PASS"), BoldColonLine("Decision", "PASS"),
    Field("Confidence", "0.95"), Field("Confidence", "abc"), Field("Confidence", "nan") }

LinesOf(role) ==
  IF role = "Solver" THEN SolverLines
  ELSE IF role = "Critic" THEN CriticLines ELSE JudgeLines

TextsOf(role) == UNION {[1..n -> LinesOf(role)] : n \in 1..MaxLines}

parse_response(role, raw) ==
  IF role = "Solver" THEN Solver_parse_response(raw)
  ELSE IF role = "Critic" THEN Critic_parse_response(raw)
  ELSE Judge_parse_response(raw)

InitParse ==
  /\ Quiet
  /\ \E role \in Roles : \E text \in TextsOf(role) :
       apply = [fn |-> "parse", role |-> role, text |-> text, done |-> FALSE,
                sections |-> EmptyDict, value |-> None]

ApplyParse ==
  /\ apply.fn = "parse" /\ ~apply.done
  /\ apply' = [apply EXCEPT !.done = TRUE,
                            !.sections = ExtractSections(apply.role, apply.text),
                            !.value = Some(parse_response(apply.role, apply.text))]
  /\ UNCHANGED QuietVars

SpecParse == InitParse /\ [][ApplyParse]_vars

\* _parse_list_section on the text of a list-valued field: items with each
\* bullet marker, with one-digit and two-digit numbering, without marker,
\* indented, and blank lines
MaxItems == 3

ListLines ==
  { Item("-", "x"), Item("*", "y"), Item(BulletDot, "z"), Item("1.", "x"),
    Item("9.", "y"), Item("10.", "z"), << "x" >>, << SP, "-", SP, "y" >>, EmptyLine }

InitList ==
  /\ Quiet
  /\ \E n \in 1..MaxItems : \E text \in [1..n -> ListLines] :
       apply = [fn |-> "list", text |-> text, done |-> FALSE, value |-> None]

ApplyList ==
  /\ apply.fn = "list" /\ ~apply.done
  /\ apply' = [apply EXCEPT !.done = TRUE,
                            !.value = Some(parse_list_section(apply.text))]
  /\ UNCHANGED QuietVars

SpecList == InitList /\ [][ApplyList]_vars

\* the labelled text of a field set, in the layout the role prompts ask for:
\* one "Label: content" segment per field, in the order of the prompt
FieldOrder(role) ==
  IF role = "Solver"
  THEN << "answer", "reasoning", "evidence", "confidence", "assumptions" >>
  ELSE IF role = "Critic"
  THEN << "status", "issues", "suggestions", "missing", "confidence" >>
  ELSE << "decision", "confidence", "reasoning", "evidence_quality", "concerns" >>

LabelOf(field) ==
  CASE field = "answer" -> "Answer"
    [] field = "reasoning" -> "Reasoning"
    [] field = "evidence" -> "Evidence"
    [] field = "confidence" -> "Confidence"
    [] field = "assumptions" -> "Assumptions"
    [] field = "status" -> "Status"
    [] field = "issues" -> "Issues"
    [] field = "suggestions" -> "Suggestions"
    [] field = "missing" -> "Missing"
    [] field = "decision" -> "Decision"
    [] field = "evidence_quality" -> "Evidence_Quality"
    [] field = "concerns" -> "Concerns"

\* "Label: content", the content's further lines following the first
Segment(field, value) ==
  << << LabelOf(field), COLON, SP >> \o Head(value) >> \o Tail(value)

RECURSIVE FormatFrom(_, _, _)
FormatFrom(order, fields, i) ==
  IF i > Len(order) THEN << >>
  ELSE (IF order[i] \in DOMAIN fields THEN Segment(order[i], fields[order[i]]) ELSE << >>)
       \o FormatFrom(order, fields, i + 1)

Format(role, fields) == FormatFrom(FieldOrder(role), fields, 1)

\* non-empty field values: a word, two words, a value with a colon in it
\* (a ratio, a time, a URL), a value of two lines
FieldValues ==
  { << << "four" >> >>, << << "x", SP, "y" >> >>, << << "x", COLON, "y" >> >>,
    << << "x" >>, << "y" >> >> }

Assignments(role) ==
  UNION {[S -> FieldValues] : S \in (SUBSET AllowList(role)) \ {{}}}

InitRoundTrip ==
  /\ Quiet
  /\ \E role \in Roles : \E fields \in Assignments(role) :
       apply = [fn |-> "roundtrip", role |-> role, fields |-> fields,
                text |-> Format(role, fields), done |-> FALSE,
                sections |-> EmptyDict, value |-> None]

ApplyRoundTrip ==
  /\ apply.fn = "roundtrip" /\ ~apply.done
  /\ apply' = [apply EXCEPT !.done = TRUE,
                            !.sections = ExtractSections(apply.role, apply.text)]
  /\ UNCHANGED QuietVars

SpecRoundTrip == InitRoundTrip /\ [][ApplyRoundTrip]_vars

(***************************************************************************)
(* Properties                                                              *)
(***************************************************************************)
Returned(s) == pc[s] = "returned" /\ result[s].kind = "result"
Last(seq) == seq[Len(seq)]
Threshold == cfg.judge_confidence_threshold

\* the acceptance rule as the design states it
Acceptable(jr, threshold) ==
  jr.decision = "PASS" /\ jr.confidence >= threshold /\ jr.validation_score >= threshold

\* the history entries of one role in one iteration
CallsOf(s, role, iteration) ==
  {k \in 1..Len(calls[s]) : calls[s][k].role = role /\ calls[s][k].iteration = iteration}

\* the response of the role call made last is still held in the locals
LastCallIs(s, role) == calls[s] # << >> /\ Last(calls[s]).role = role

\* C1: whenever process has returned a SystemResult with accepted = true, the
\* last IterationResult of that result carries a JudgeResponse whose decision
\* is PASS and whose confidence and validation_score are both at least the
\* configured judge_confidence_threshold.
C1_AcceptedHasPassingJudge ==
  \A s \in Sessions :
    (Returned(s) /\ result[s].accepted) =>
      /\ result[s].iterations # << >>
      /\ Last(result[s].iterations).judge_response # None
      /\ LET jr == Last(result[s].iterations).judge_response[1] IN
           /\ jr.decision = "PASS"
           /\ jr.confidence >= Threshold
           /\ jr.validation_score >= Threshold

\* a session accepted in a later iteration, under a positive threshold
C1_Witness ==
  \E s \in Sessions :
    /\ Returned(s) /\ result[s].accepted
    /\ Len(result[s].iterations) >= 2
    /\ Threshold > 0

\* C2: in every recorded IterationResult a JudgeResponse is present exactly
\* when the Critic of that iteration approved; an iteration whose Critic
\* rejected has no Judge call, and one whose Critic approved has exactly one
\* Judge call, made on the Solver answer that the Critic call was given.
C2_JudgeIffCriticApproved ==
  \A s \in Sessions :
    \A i \in 1..Len(loc[s].iterations) :
      LET it == loc[s].iterations[i]
          judge_calls == CallsOf(s, "Judge", it.iteration)
          critic_calls == CallsOf(s, "Critic", it.iteration)
      IN /\ it.critic_response # None
         /\ (it.judge_response # None) <=> (it.critic_response[1].status = "APPROVE")
         /\ it.critic_response[1].status = "REJECT" => judge_calls = {}
         /\ it.critic_response[1].status = "APPROVE" =>
              /\ Cardinality(judge_calls) = 1
              /\ \A j \in judge_calls : \A c \in critic_calls :
                   /\ calls[s][j].answer = Some(it.solver_response.answer)
                   /\ calls[s][j].answer = calls[s][c].answer
                   /\ c < j

\* a session that recorded both a rejected and an approved iteration
C2_Witness ==
  \E s \in Sessions :
    \E i, j \in 1..Len(loc[s].iterations) :
      /\ loc[s].iterations[i].critic_response[1].status = "REJECT"
      /\ loc[s].iterations[j].critic_response[1].status = "APPROVE"
      /\ loc[s].iterations[j].judge_response # None

\* C3: every SystemResult process returns, whether accepted, exhausted or an
\* error result, holds at most max_iterations IterationResults, and its
\* total_iterations is their number.
C3_IterationsBounded ==
  \A s \in Sessions :
    /\ Len(loc[s].iterations) <= cfg.max_iterations
    /\ Returned(s) =>
         /\ Len(result[s].iterations) <= cfg.max_iterations
         /\ result[s].total_iterations = Len(result[s].iterations)

\* an exhausted session that used all of its (several) iterations
C3_Witness ==
  \E s \in Sessions :
    /\ Returned(s)
    /\ cfg.max_iterations >= 2
    /\ result[s].total_iterations = cfg.max_iterations
    /\ ~result[s].accepted

\* the loop of process has been left
LoopOver(s) == pc[s] \in {"finalize", "except", "returned", "raised"}
Finished(s) == pc[s] \in {"returned", "raised"}

AcceptableIteration(it) ==
  it.judge_response # None /\ Acceptable(it.judge_response[1], Threshold)

\* C4: every process call that has started finishes; when its loop is over
\* no iteration before the last one satisfied the acceptance rule, and
\* (unless a system error cut the loop short) the last iteration either
\* satisfies it or is iteration max_iterations; after the loop is over the
\* session makes no further Solver, Critic or Judge call.
C4_TerminatesAndStops ==
  /\ \A s \in Sessions : (pc[s] = "solve") ~> Finished(s)
  /\ [](\A s \in Sessions :
          LoopOver(s) =>
            LET its == loc[s].iterations IN
              /\ \A i \in 1..(Len(its) - 1) : ~AcceptableIteration(its[i])
              /\ ~loc[s].loop_error =>
                   /\ its # << >>
                   /\ AcceptableIteration(Last(its)) \/ Len(its) = cfg.max_iterations
                   /\ loc[s].accepted <=> AcceptableIteration(Last(its)))
  /\ [][\A s \in Sessions : LoopOver(s) => (LoopOver(s)' /\ calls'[s] = calls[s])]_vars

\* a session accepted at iteration 1 although more passes were allowed, finished
C4_Witness ==
  \E s \in Sessions :
    /\ Returned(s) /\ result[s].accepted
    /\ Len(result[s].iterations) = 1
    /\ cfg.max_iterations >= 2

\* C5: a session that completes its loop without any accepted iteration
\* returns accepted = false, exactly max_iterations IterationResults, the
\* last iteration's Solver answer as final_answer and the smaller of the last
\* iteration's Solver and Critic confidences as confidence.
C5_Exhausted ==
  \A s \in Sessions :
    (/\ Returned(s)
     /\ "error" \notin DOMAIN result[s].metadata
     /\ \A i \in 1..Len(result[s].iterations) : ~result[s].iterations[i].accepted)
    => LET its == result[s].iterations
           last == Last(its)
           sc == last.solver_response.confidence
           cc == last.critic_response[1].confidence
       IN /\ ~result[s].accepted
          /\ Len(its) = cfg.max_iterations
          /\ result[s].final_answer = last.solver_response.answer
          /\ result[s].confidence = (IF sc <= cc THEN sc ELSE cc)

\* exhausted after a Judge rejection, with the Critic less confident than the Solver
C5_Witness ==
  \E s \in Sessions :
    /\ Returned(s) /\ ~result[s].accepted
    /\ "error" \notin DOMAIN result[s].metadata
    /\ Len(result[s].iterations) = cfg.max_iterations
    /\ Last(result[s].iterations).judge_response # None
    /\ Last(result[s].iterations).critic_response[1].confidence
         < Last(result[s].iterations).solver_response.confidence

\* C6: process never ends with an exception, and a call that met an error
\* has returned an error result: accepted = false, confidence 0.0, the error
\* text in metadata, the iterations recorded so far kept.
C6_NeverRaises ==
  \A s \in Sessions :
    /\ pc[s] # "raised"
    /\ (Returned(s) /\ loc[s].error # "") =>
         /\ ~result[s].accepted
         /\ result[s].confidence = 0
         /\ "error" \in DOMAIN result[s].metadata
         /\ result[s].metadata.error = loc[s].error
         /\ result[s].iterations = loc[s].iterations

\* C7: a role call on which the provider failed has returned the role's
\* safe default: the Solver a confidence-0.0 answer that states the error,
\* the Critic REJECT with confidence 0.0 and the error as its only issue,
\* the Judge FAIL with confidence 0.0 and evidence_quality WEAK; the role
\* call has returned to process, which is at its next step.
C7_RoleFailureDefaults ==
  \A s \in Sessions :
    (calls[s] # << >> /\ Last(calls[s]).out.kind # "text" /\ ~loc[s].loop_error) =>
      LET err == ErrorText(Last(calls[s]).out) IN
        /\ LastCallIs(s, "Solver") =>
             /\ pc[s] = "critique"
             /\ loc[s].solver_response[1].confidence = 0
             /\ \E i \in 1..Len(loc[s].solver_response[1].answer[1]) :
                  loc[s].solver_response[1].answer[1][i] = err
        /\ LastCallIs(s, "Critic") =>
             /\ pc[s] # "judge"
             /\ loc[s].critic_response[1].status = "REJECT"
             /\ loc[s].critic_response[1].confidence = 0
             /\ Len(loc[s].critic_response[1].issues) = 1
             /\ \E i \in 1..Len(loc[s].critic_response[1].issues[1]) :
                  loc[s].critic_response[1].issues[1][i] = err
        /\ LastCallIs(s, "Judge") =>
             /\ loc[s].judge_response[1].decision = "FAIL"
             /\ loc[s].judge_response[1].confidence = 0
             /\ loc[s].judge_response[1].evidence_quality = "WEAK"
             /\ ~loc[s].accepted

\* a Critic call on which the provider raised, after a Solver call that succeeded
C7_Witness ==
  \E s \in Sessions :
    /\ LastCallIs(s, "Critic")
    /\ Last(calls[s]).out.kind = "raise"
    /\ pc[s] = "record"
    /\ loc[s].solver_response[1].confidence > 0

\* C8: should_accept(response, threshold) is true exactly when the decision
\* is PASS, the confidence is at least the threshold and the validation_score
\* is at least the threshold; it is false for every FAIL response.
C8_ShouldAcceptRule ==
  (apply.fn = "should_accept" /\ apply.done) =>
    LET jr == apply.judge_response IN
      /\ apply.value <=> (/\ jr.decision = "PASS"
                          /\ jr.confidence >= apply.threshold
                          /\ jr.validation_score >= apply.threshold)
      /\ jr.decision = "FAIL" => ~apply.value

\* a FAIL response with confidence and validation_score above the threshold
C8_Witness ==
  /\ apply.fn = "should_accept" /\ apply.done
  /\ apply.judge_response.decision = "FAIL"
  /\ apply.judge_response.confidence > apply.threshold
  /\ apply.judge_response.validation_score > apply.threshold
  /\ ~apply.value

\* the validation score of the design, from a response's own fields
ScoreOf(jr) ==
  LET base == IF jr.decision = "PASS" THEN 70 ELSE 20
      bonus == IF jr.evidence_quality = "STRONG" THEN 10
               ELSE IF jr.evidence_quality = "MODERATE" THEN 5 ELSE 0
      penalty == IF 5 * Len(jr.concerns) < 20 THEN 5 * Len(jr.concerns) ELSE 20
      raw == base + (20 * jr.confidence) \div 100 + bonus - penalty
  IN IF raw < 0 THEN 0 ELSE IF raw > 100 THEN 100 ELSE raw

\* C9 as stated: every JudgeResponse validate returns carries the validation
\* score the formula gives for its own fields.
C9_EveryResponseScored ==
  (apply.fn = "validate" /\ apply.done) =>
    apply.value.validation_score = ScoreOf(apply.value)

\* C9 amended: a JudgeResponse that validate parsed from a provider response
\* carries the validation score the formula gives for its own fields; the
\* response validate returns when the provider call failed carries
\* validation_score 0.0.
C9_ParsedResponseScored ==
  (apply.fn = "validate" /\ apply.done) =>
    IF apply.out.kind = "text"
    THEN apply.value.validation_score = ScoreOf(apply.value)
    ELSE apply.value.validation_score = 0

\* a parsed PASS response whose concerns exceed the penalty cap
C9_Witness ==
  /\ apply.fn = "validate" /\ apply.done
  /\ apply.out.kind = "text"
  /\ apply.value.decision = "PASS"
  /\ Len(apply.value.concerns) > 4
  /\ apply.value.confidence = 95
  /\ apply.value.evidence_quality = "MODERATE"

InUnit(x) == 0 <= x /\ x <= Scale

\* the number a response text gives as its confidence: the value of a line
\* "Confidence: v" that ends the text or is followed by another label line
StatedConfidence(text) ==
  {NumValue(text[i][4]) : i \in
     {i \in 1..Len(text) :
        /\ Len(text[i]) = 4 /\ text[i][1] = "Confidence" /\ text[i][2] = COLON
        /\ IsNumToken(text[i][4])
        /\ (i = Len(text) \/ (Len(text[i + 1]) >= 2 /\ text[i + 1][2] = COLON))}}

ClampedAsStated(out, confidence) ==
  out.kind = "text" =>
    \A f \in StatedConfidence(out.text) :
      ~f.nan => /\ f.v > Scale => confidence = Scale
                /\ f.v < 0 => confidence = 0
                /\ (0 <= f.v /\ f.v <= Scale) => confidence = f.v

\* C10: the confidence of every SolverResponse, CriticResponse and
\* JudgeResponse, the validation_score of every JudgeResponse and the
\* confidence of every SystemResult lie in [0, 1], whatever the provider
\* returned and whether or not it failed; a stated confidence above 1 has
\* become 1.0 and one below 0 has become 0.0.
C10_ConfidencesInUnitInterval ==
  \A s \in Sessions :
    /\ loc[s].solver_response # None => InUnit(loc[s].solver_response[1].confidence)
    /\ loc[s].critic_response # None => InUnit(loc[s].critic_response[1].confidence)
    /\ loc[s].judge_response # None =>
         /\ InUnit(loc[s].judge_response[1].confidence)
         /\ InUnit(loc[s].judge_response[1].validation_score)
    /\ InUnit(loc[s].final_confidence)
    /\ \A i \in 1..Len(loc[s].iterations) :
         LET it == loc[s].iterations[i] IN
           /\ InUnit(it.solver_response.confidence)
           /\ InUnit(it.critic_response[1].confidence)
           /\ it.judge_response # None =>
                /\ InUnit(it.judge_response[1].confidence)
                /\ InUnit(it.judge_response[1].validation_score)
    /\ Returned(s) => InUnit(result[s].confidence)
    /\ LastCallIs(s, "Solver") =>
         ClampedAsStated(Last(calls[s]).out, loc[s].solver_response[1].confidence)
    /\ LastCallIs(s, "Critic") =>
         ClampedAsStated(Last(calls[s]).out, loc[s].critic_response[1].confidence)
    /\ LastCallIs(s, "Judge") =>
         ClampedAsStated(Last(calls[s]).out, loc[s].judge_response[1].confidence)

\* a session accepted with confidence 1.0 on a Judge text stating 5.0, after a
\* Solver text stating a negative confidence
C10_Witness ==
  \E s \in Sessions :
    /\ Returned(s) /\ result[s].accepted
    /\ result[s].confidence = Scale
    /\ Last(calls[s]).out = TextOutcome(JudgeTexts.over)
    /\ Last(result[s].iterations).solver_response.confidence = 0
    /\ \E k \in 1..Len(calls[s]) : calls[s][k].out = TextOutcome(SolverTexts.under)

\* the Solver calls a process() call has made: one per pass begun
SolverCalls(s) == Cardinality({k \in 1..Len(calls[s]) : calls[s][k].role = "Solver"})

\* C11: the i-th recorded IterationResult has iteration = i, and the number
\* of recorded results is the number of passes run to completion: while a
\* pass is under way one less than the passes begun, and all of them once the
\* loop has been left normally, whatever the outcome of each pass.
C11_OneResultPerPass ==
  \A s \in Sessions :
    LET its == loc[s].iterations IN
      /\ \A i \in 1..Len(its) : its[i].iteration = i
      /\ pc[s] = "solve" => Len(its) = SolverCalls(s)
      /\ pc[s] \in {"critique", "judge", "record"} => Len(its) = SolverCalls(s) - 1
      /\ (pc[s] = "finalize" \/ (Returned(s) /\ ~loc[s].loop_error)) =>
           /\ Len(its) = SolverCalls(s)
           /\ Len(its) = loc[s].iteration
      /\ Returned(s) => result[s].iterations = its

\* three passes with three outcomes: Critic reject, Judge reject, accept
C11_Witness ==
  \E s \in Sessions :
    /\ Returned(s) /\ Len(result[s].iterations) = 3
    /\ result[s].iterations[1].judge_response = None
    /\ result[s].iterations[2].judge_response # None
    /\ ~result[s].iterations[2].accepted
    /\ result[s].iterations[3].accepted
    /\ result[s].iterations[3].iteration = 3

\* index of the first line of text that is exactly the one-token line heading;
\* 0 when there is none
HeadingAt(text, heading) ==
  IF \E p \in 1..Len(text) : text[p] = << heading >>
  THEN CHOOSE p \in 1..Len(text) :
         text[p] = << heading >> /\ \A q \in 1..(p - 1) : text[q] # << heading >>
  ELSE 0

\* items listed under heading, numbered from 1 in their order; no heading
\* for an empty list
ListedUnder(text, heading, items) ==
  LET p == HeadingAt(text, heading) IN
    IF items = << >> THEN p = 0
    ELSE /\ p > 0
         /\ p + Len(items) <= Len(text)
         /\ \A i \in 1..Len(items) :
              text[p + i] = << ToString(i) \o ".", SP >> \o items[i]

\* text is original_context followed by a REVISION GUIDANCE block for critic
IsRevisionContext(text, original_context, critic) ==
  LET g == HeadingAt(text, "REVISION GUIDANCE:") IN
    /\ g > 0
    /\ IF original_context = EmptyText THEN g = 1
       ELSE /\ g > Len(original_context)
            /\ SubSeq(text, 1, Len(original_context)) = original_context
    /\ ListedUnder(text, "Issues to fix:", critic.issues)
    /\ ListedUnder(text, "Suggestions to implement:", critic.suggestions)
    /\ ListedUnder(text, "Missing information to add:", critic.missing)
    /\ \A h \in {"Issues to fix:", "Suggestions to implement:", "Missing information to add:"} :
         HeadingAt(text, h) = 0 \/ HeadingAt(text, h) > g

\* C12: the Solver call of iteration 1 gets the original question and
\* context; the Solver call of an iteration k > 1 gets the original question
\* and the original context followed by a REVISION GUIDANCE block listing the
\* issues, suggestions and missing items of the Critic response of iteration
\* k - 1, each numbered from 1 in order, an empty list having no heading.
C12_SolverContexts ==
  \A s \in Sessions : \A k \in 1..Len(calls[s]) :
    LET c == calls[s][k] IN
      c.role = "Solver" =>
        /\ c.question = QuestionOf(s)
        /\ c.iteration = 1 => c.context = loc[s].context
        /\ c.iteration > 1 =>
             /\ c.iteration - 1 <= Len(loc[s].iterations)
             /\ IsRevisionContext(c.context, loc[s].context,
                                  loc[s].iterations[c.iteration - 1].critic_response[1])

\* a retry after a Critic response with issues and suggestions but no missing
\* items, in a session that was given a context
C12_Witness ==
  \E s \in Sessions : \E k \in 1..Len(calls[s]) :
    /\ calls[s][k].role = "Solver" /\ calls[s][k].iteration = 2
    /\ loc[s].context # EmptyText
    /\ Len(loc[s].iterations) >= 1
    /\ Len(loc[s].iterations[1].critic_response[1].issues) = 2
    /\ loc[s].iterations[1].critic_response[1].suggestions # << >>
    /\ loc[s].iterations[1].critic_response[1].missing = << >>

\* the interaction entries of the persisted record are those of the role
\* calls of session s, in order
OwnEntries(s, entries) ==
  /\ Len(entries) = Len(calls[s])
  /\ \A k \in 1..Len(entries) :
       /\ entries[k].agent_type = calls[s][k].role
       /\ entries[k].question = QuestionOf(s)

IOError == "[Errno 2] No such file or directory"

\* C13: with two process calls interleaved, no call ends by raising (a log
\* directory that cannot be written aside), each call that returns has
\* returned the result of its own session and its session record has been
\* written, and every persisted session record carries its own session id
\* and question with exactly the interaction entries of its own role calls.
C13_ConcurrentSessionsIsolated ==
  \A s \in Sessions :
    /\ pc[s] = "raised" => loc[s].raised = IOError
    /\ (pc[s] = "except" /\ ~loc[s].loop_error) => loc[s].error = IOError
    /\ Returned(s) =>
         /\ result[s].session_id = s
         /\ result[s].question = QuestionOf(s)
         /\ s \in DOMAIN files
    /\ s \in DOMAIN files =>
         /\ files[s].session_id = s
         /\ files[s].question = QuestionOf(s)
         /\ OwnEntries(s, files[s].interactions)

IsPrefix(a, b) == Len(a) <= Len(b) /\ SubSeq(b, 1, Len(a)) = a

\* a step in which a role is called: inside a process call, or the bare
\* Solver call of compare_single_vs_multi_agent
RoleCallStep ==
  \E s \in Sessions :
    \/ calls'[s] # calls[s]
    \/ pc[s] = "idle" /\ pc'[s] = "compared"

\* a session record written in this step holds the entries logged so far
PersistedInStep ==
  \E k \in DOMAIN files' :
    /\ k \notin DOMAIN files \/ files[k] # files'[k]
    /\ files'[k].interactions = logger.interactions

\* C14: a step in which a role is called appends exactly one entry to the
\* interaction log and keeps the entries already there; any other step
\* leaves the log as it is, unless it writes the logged entries to a
\* persisted session record.
C14_LogAppendOnly ==
  [][IF RoleCallStep
     THEN /\ Len(logger'.interactions) = Len(logger.interactions) + 1
          /\ IsPrefix(logger.interactions, logger'.interactions)
     ELSE logger'.interactions = logger.interactions \/ PersistedInStep]_vars

\* nothing of a session exists: no call under way, nothing logged or written
NoSessionStarted ==
  /\ \A s \in Sessions : pc[s] \in {"absent", "idle"} /\ calls[s] = << >>
  /\ logger = NewLogger
  /\ files = [k \in {} |-> 0]

InvalidBounds ==
  \/ cfg.max_iterations < 1
  \/ cfg.judge_confidence_threshold < 0
  \/ cfg.judge_confidence_threshold > Scale

\* C15: once the constructor has run, a configuration with max_iterations
\* below 1 or a threshold outside [0,1] has made it raise, with no agent
\* created and no session started then or later; a configuration within the
\* bounds that has an API key has been accepted, with the three agents
\* created.  Before the constructor has run no session can have started.
C15_ConfigValidatedAtStartup ==
  /\ orch.state = "new" => NoSessionStarted /\ orch.agents = {}
  /\ (orch.state # "new" /\ InvalidBounds) =>
       /\ orch.state = "ValueError"
       /\ orch.agents = {}
       /\ NoSessionStarted
  /\ (orch.state # "new" /\ ~InvalidBounds /\ cfg.openai_api_key) =>
       /\ orch.state = "ready"
       /\ orch.agents = Roles

\* the constructor has raised on a threshold of 1.5, everything else valid
C15_Witness ==
  /\ orch.state = "ValueError"
  /\ cfg.judge_confidence_threshold = 150
  /\ cfg.max_iterations >= 1
  /\ cfg.openai_api_key
  /\ orch.error = "judge_confidence_threshold must be between 0.0 and 1.0"

\* a role's parser has been applied to a text
Parsed(role) == apply.fn = "parse" /\ apply.done /\ apply.role = role

\* some word of text is, in upper case, exactly the token tok
HasToken(text, tok) ==
  \E i \in 1..Len(text) : \E j \in 1..Len(text[i]) : TokUpper(text[i][j]) = tok

\* C16: for every provider text the parsed CriticResponse has status APPROVE
\* only if a status field was extracted and its text contains the token
\* APPROVE (in either case of letters); with no status field, an empty one
\* or one without that token the status is REJECT.
C16_CriticRejectBiased ==
  Parsed("Critic") =>
    LET r == apply.value[1] IN
      /\ r.status \in {"APPROVE", "REJECT"}
      /\ r.status = "APPROVE" =>
           /\ "status" \in DOMAIN apply.sections
           /\ HasToken(apply.sections["status"], "APPROVE")

\* the words that contain PASS (STRONG, MODERATE) when written in upper case
WordsContaining(needle) ==
  IF needle = "PASS" THEN {"PASS", "PASSED", "BYPASS", "pass", "Passed"}
  ELSE IF needle = "STRONG" THEN {"STRONG", "strong"}
  ELSE IF needle = "MODERATE" THEN {"MODERATE"}
  ELSE {}

FieldContains(sections, field, needle) ==
  /\ field \in DOMAIN sections
  /\ \E i \in 1..Len(sections[field]) : \E j \in 1..Len(sections[field][i]) :
       sections[field][i][j] \in WordsContaining(needle)

\* C17: the parsed decision is PASS exactly when a decision field was
\* extracted and its text contains PASS, FAIL otherwise; evidence_quality is
\* STRONG when the evidence_quality field contains STRONG, else MODERATE when
\* it contains MODERATE, else WEAK, also when the field is missing.
C17_JudgeFailBiased ==
  Parsed("Judge") =>
    LET r == apply.value[1]
        sec == apply.sections
    IN /\ r.decision = (IF FieldContains(sec, "decision", "PASS") THEN "PASS" ELSE "FAIL")
       /\ r.evidence_quality =
            (IF FieldContains(sec, "evidence_quality", "STRONG") THEN "STRONG"
             ELSE IF FieldContains(sec, "evidence_quality", "MODERATE") THEN "MODERATE"
             ELSE "WEAK")

\* a text whose only PASS is outside any decision field, and whose evidence
\* quality is given under a header the Judge parser normalises
C17_Witness ==
  /\ Parsed("Judge")
  /\ apply.text = << << "PASS" >>,
                     << "Evidence", SP, "Quality", COLON, SP, "MODERATE" >>,
                     Field("Decision", "FAIL") >>
  /\ apply.value[1].decision = "FAIL"
  /\ apply.value[1].evidence_quality = "MODERATE"

\* some role's parser has been applied to a text
ParsedAny == apply.fn = "parse" /\ apply.done

\* C18: in the section parser of every role only a line whose header is in
\* the role's allow-list starts a section, so every key of the returned
\* mapping is an allow-listed field name; a bold-delimited line and a colon
\* line with another header never create a key.
C18_OnlyAllowListedKeys ==
  ParsedAny => DOMAIN apply.sections \subseteq AllowList(apply.role)

\* a line the section parser of the role takes as a label: bold-delimited,
\* or in colon style with an allow-listed header
IsLabel(role, rawline) ==
  LET line == Strip(rawline) IN
    \/ StartsWithBold(line) /\ EndsWithBold(line)
    \/ /\ ColonStyle(role, line)
       /\ HeaderClean(role, SplitHeader(line)) \in AllowList(role)

Unlabelled(role, text) == \A i \in 1..Len(text) : ~IsLabel(role, text[i])

\* C19 as stated: for a text without a recognised label the section parser
\* returns a mapping with a single field whose value is the entire text.
C19_SingleFallbackField ==
  (ParsedAny /\ Unlabelled(apply.role, apply.text)) =>
    /\ Cardinality(DOMAIN apply.sections) = 1
    /\ \A k \in DOMAIN apply.sections : apply.sections[k] = apply.text

\* the field of each role's response that takes the raw text when no section
\* of that name was extracted
FallbackField(role, r) ==
  IF role = "Solver" THEN r.answer
  ELSE IF role = "Critic" THEN r.detailed_feedback ELSE r.reasoning

\* C19 amended: for a text without a recognised label the section parser
\* returns the empty mapping, and the role's _parse_response keeps the text:
\* whole in the Critic's detailed_feedback and the Judge's reasoning, and in
\* the Solver's answer whole up to AnswerCap characters, beyond that cut to
\* its first AnswerCap characters followed by "...".
C19_FallbackInParsedResponse ==
  (ParsedAny /\ Unlabelled(apply.role, apply.text)) =>
    /\ apply.sections = EmptyDict
    /\ FallbackField(apply.role, apply.value[1]) =
         (IF apply.role = "Solver" /\ CharLen(apply.text) > AnswerCap
          THEN Append1(Prefix(apply.text, AnswerCap), "...")
          ELSE apply.text)

C19_Witness ==
  /\ Parsed("Judge")
  /\ apply.text = << << "PASS" >>, Field("Note", "x") >>
  /\ Unlabelled("Judge", apply.text)
  /\ apply.sections = EmptyDict
  /\ apply.value[1].reasoning = apply.text

\* C20: for every assignment of non-empty values to allow-listed fields of
\* a role, parsing the text that writes it as "Label: content" segments
\* returns exactly the assignment, for the Solver, the Critic and the Judge.
C20_RoundTrip ==
  (apply.fn = "roundtrip" /\ apply.done) => apply.sections = apply.fields

\* the last line of the parsed text writes field f in the output format of
\* the role prompts, with or without the list marker
EndsWithPromptField(f) ==
  LET line == apply.text[Len(apply.text)] IN
    \/ Len(line) = 8 /\ line = PromptLine(LabelOf(f), line[8])
    \/ Len(line) = 6 /\ line = BoldColonLine(LabelOf(f), line[6])

PromptContent == LET line == apply.text[Len(apply.text)] IN << << line[Len(line)] >> >>

\* C21: a field written in the output format the role prompts request, one
\* line "- **Label**: content" (or "**Label**: content"), is parsed so that
\* the allow-listed label maps to its content; a Judge text ending with the
\* line "**Decision**: PASS" parses to decision PASS.
C21_PromptFormatParsed ==
  ParsedAny =>
    \A f \in AllowList(apply.role) :
      EndsWithPromptField(f) =>
        /\ f \in DOMAIN apply.sections
        /\ apply.sections[f] = PromptContent
        /\ (apply.role = "Judge" /\ f = "decision" /\ PromptContent = Lit("PASS"))
             => apply.value[1].decision = "PASS"

\* a bullet marker or a numeric prefix "N." for a positive integer N
ListMarkers == {"-", "*", BulletDot, "1.", "2.", "3.", "4.", "5.", "6.", "7.", "8.", "9.",
                "10.", "11.", "12."}

\* the item a line stands for: the line without surrounding blanks and
\* without its leading marker
ItemOf(rawline) ==
  LET line == Strip(rawline) IN
    IF Len(line) >= 2 /\ line[1] \in ListMarkers /\ line[2] = SP
    THEN Strip(SubSeq(line, 3, Len(line))) ELSE line

RECURSIVE ItemsOf(_)
\* one item per non-empty line, in the order of the lines
ItemsOf(lines) ==
  IF lines = << >> THEN << >>
  ELSE IF ItemOf(Head(lines)) = << >> THEN ItemsOf(Tail(lines))
       ELSE << ItemOf(Head(lines)) >> \o ItemsOf(Tail(lines))

\* C22: a list-valued field is split into one item per non-empty line, in
\* the original order, blank lines giving no item, with a leading bullet
\* marker or a leading numeric prefix "N." removed for every positive
\* integer N, those of two digits included.
C22_ListItemsStripped ==
  (apply.fn = "list" /\ apply.done) => apply.value[1] = ItemsOf(apply.text)

\* C23: for every non-empty provider text the parsed SolverResponse has a
\* non-empty answer, and when no answer section was extracted the answer is
\* a prefix of the raw text of at most AnswerCap characters.
C23_AnswerNeverEmpty ==
  (Parsed("Solver") /\ CharLen(apply.text) > 0) =>
    LET answer == apply.value[1].answer IN
      /\ CharLen(answer) > 0
      /\ "answer" \notin DOMAIN apply.sections =>
           /\ CharLen(answer) <= AnswerCap
           /\ answer = Prefix(apply.text, CharLen(answer))

\* the text of a confidence field states a number
StatesNumber(text) ==
  /\ FloatOk(ConfidenceText(text))
  /\ ~FloatOf(ConfidenceText(text)).nan

\* the confidence each role's parser falls back to
ParseFallback(role) == IF role = "Judge" THEN 0 ELSE Scale \div 2

\* C24: when the confidence field is missing or is not a number, the parsed
\* confidence is 0.5 for the Solver and the Critic and 0.0 for the Judge,
\* and such a Judge response is accepted by should_accept only for the
\* threshold 0.
C24_ConfidenceFallback ==
  ParsedAny =>
    LET r == apply.value[1] IN
      ("confidence" \notin DOMAIN apply.sections
         \/ ~StatesNumber(apply.sections["confidence"])) =>
        /\ r.confidence = ParseFallback(apply.role)
        /\ apply.role = "Judge" =>
             \A threshold \in ThresholdValues :
               should_accept(r, threshold) => threshold = 0

\* the recorded iterations of a result that the Critic approved, and those
\* that the Judge passed
Approvals(r) ==
  {i \in 1..Len(r.iterations) : r.iterations[i].critic_response[1].status = "APPROVE"}
Passes(r) ==
  {i \in 1..Len(r.iterations) :
     /\ r.iterations[i].judge_response # None
     /\ r.iterations[i].judge_response[1].decision = "PASS"}

\* the efficiency of a summary is 1 - (total_iterations - 1) / max(max_iterations - 1, 1)
EfficiencyAsStated(summary, r) ==
  LET d == IF cfg.max_iterations - 1 > 1 THEN cfg.max_iterations - 1 ELSE 1
  IN summary.efficiency.num * d = (d - (r.total_iterations - 1)) * summary.efficiency.den

\* the step is a call of get_performance_summary
Summarised == apply' # apply /\ apply'.fn = "summary"

\* what a call of get_performance_summary leaves as it was
SummaryFrame ==
  /\ result' = result /\ loc' = loc /\ logger' = logger /\ files' = files
  /\ cfg' = cfg /\ pc' = pc

\* C25 as stated: get_performance_summary changes neither the SystemResult,
\* its iterations nor the log, and returns the efficiency, critic_approvals
\* and judge_passes of the result, for every result process returns.
C25_SummaryOfEveryResult ==
  [][Summarised =>
       LET r == result[apply'.session]
           summary == apply'.value
       IN /\ SummaryFrame
          /\ EfficiencyAsStated(summary, r)
          /\ {"critic_approvals", "judge_passes"} \subseteq DOMAIN summary
          /\ summary.critic_approvals = Cardinality(Approvals(r))
          /\ summary.judge_passes = Cardinality(Passes(r))
          /\ summary.judge_passes <= summary.critic_approvals
          /\ summary.critic_approvals <= r.total_iterations]_vars

\* C25 amended: get_performance_summary changes neither the SystemResult,
\* its iterations nor the log and returns the efficiency as stated; for a
\* result with at least one recorded iteration it returns critic_approvals
\* and judge_passes as stated, and for a result without recorded iteration
\* the summary has neither entry.
C25_SummaryReadOnly ==
  [][Summarised =>
       LET r == result[apply'.session]
           summary == apply'.value
       IN /\ SummaryFrame
          /\ EfficiencyAsStated(summary, r)
          /\ IF r.iterations # << >>
             THEN /\ summary.critic_approvals = Cardinality(Approvals(r))
                  /\ summary.judge_passes = Cardinality(Passes(r))
                  /\ summary.judge_passes <= summary.critic_approvals
                  /\ summary.critic_approvals <= r.total_iterations
             ELSE DOMAIN summary \cap {"critic_approvals", "judge_passes"} = {}]_vars

\* the summary of a result of three iterations, the Critic having approved
\* more of them than the Judge passed
C25_Witness ==
  /\ apply.fn = "summary"
  /\ result[apply.session].total_iterations = MaxIter
  /\ apply.value.judge_passes < apply.value.critic_approvals
  /\ apply.value.critic_approvals < MaxIter
  /\ apply.value.efficiency = Ratio(0, MaxIter - 1)

\* process has returned a result that is not the result of its except clause
ReturnedNormally(s) == Returned(s) /\ "error" \notin DOMAIN result[s].metadata

\* the detail of a reason names at least one ground for a rejection
DescribesRejection(detail) ==
  /\ detail # << >>
  /\ detail[1][1] # "Response was not rejected"

\* C26: an iteration the Critic approved and whose Judge response is not
\* acceptable at the threshold (FAIL, or PASS with confidence or
\* validation_score below it) is recorded with accepted = false and a reason
\* that cites the Judge rejection and describes why the Judge rejected, and
\* when its number is below max_iterations another iteration follows it.
C26_JudgeRejectionRecorded ==
  \A s \in Sessions : \A i \in 1..Len(loc[s].iterations) :
    LET it == loc[s].iterations[i] IN
      (/\ it.critic_response[1].status = "APPROVE"
       /\ it.judge_response # None
       /\ ~Acceptable(it.judge_response[1], Threshold)) =>
        /\ ~it.accepted
        /\ it.reason.text = "Judge rejected: "
        /\ DescribesRejection(it.reason.detail)
        /\ (ReturnedNormally(s) /\ i < cfg.max_iterations) =>
             Len(result[s].iterations) > i

\* C27: in every SystemResult returned without a system error at most one
\* IterationResult is accepted and it is the last one; the result's accepted
\* flag is that of the last IterationResult, its final_answer the last
\* iteration's Solver answer, and when accepted its confidence is the
\* confidence of the accepting Judge response, hence at least the threshold.
C27_AcceptedIsLast ==
  \A s \in Sessions :
    ReturnedNormally(s) =>
      LET its == result[s].iterations IN
        /\ its # << >>
        /\ \A i \in 1..Len(its) : its[i].accepted => i = Len(its)
        /\ result[s].accepted = Last(its).accepted
        /\ result[s].final_answer = Last(its).solver_response.answer
        /\ result[s].accepted =>
             /\ Last(its).judge_response # None
             /\ result[s].confidence = Last(its).judge_response[1].confidence
             /\ result[s].confidence >= Threshold

\* a result accepted in its third iteration after two rejected ones, the
\* Judge's confidence differing from the Solver's
C27_Witness ==
  \E s \in Sessions :
    /\ ReturnedNormally(s) /\ result[s].accepted
    /\ Len(result[s].iterations) = MaxIter
    /\ ~result[s].iterations[1].accepted
    /\ result[s].confidence # Last(result[s].iterations).solver_response.confidence
    /\ result[s].confidence = Last(result[s].iterations).judge_response[1].confidence

\* the Critic response recorded for the iteration before call c
FeedbackBefore(s, c) == loc[s].iterations[c.iteration - 1].critic_response[1]

\* C28: the context given to the Solver in an iteration k > 1 is determined
\* by the original context and the Critic response of iteration k - 1 alone:
\* two retries that follow equal Critic responses get equal contexts,
\* whatever the earlier iterations and the Judge responses were; the Critic
\* and the Judge are called in every iteration with the original context.
C28_GuidanceFromLastCriticOnly ==
  \A s \in Sessions :
    /\ \A j, k \in 1..Len(calls[s]) :
         LET c == calls[s][j]
             d == calls[s][k]
         IN (/\ c.role = "Solver" /\ d.role = "Solver"
             /\ c.iteration > 1 /\ d.iteration > 1
             /\ d.iteration - 1 <= Len(loc[s].iterations)
             /\ c.iteration - 1 <= Len(loc[s].iterations)
             /\ FeedbackBefore(s, c) = FeedbackBefore(s, d)) => c.context = d.context
    /\ \A k \in 1..Len(calls[s]) :
         calls[s][k].role \in {"Critic", "Judge"} => calls[s][k].context = loc[s].context

\* retries in iterations 2 and 3 that follow equal Critic responses and
\* different Judge responses, the first with concerns, and get equal
\* contexts, in a session that was given a context
C28_Witness ==
  \E s \in Sessions : \E j, k \in 1..Len(calls[s]) :
    /\ calls[s][j].role = "Solver" /\ calls[s][j].iteration = 2
    /\ calls[s][k].role = "Solver" /\ calls[s][k].iteration = 3
    /\ Len(loc[s].iterations) >= 2
    /\ loc[s].context # EmptyText
    /\ loc[s].iterations[1].critic_response = loc[s].iterations[2].critic_response
    /\ loc[s].iterations[1].judge_response # None
    /\ loc[s].iterations[1].judge_response[1].concerns # << >>
    /\ loc[s].iterations[1].judge_response # loc[s].iterations[2].judge_response
    /\ calls[s][j].context = calls[s][k].context

\* the provider has failed on every role call the session has made so far,
\* and nothing else has gone wrong
EveryCallFailed(s) ==
  /\ calls[s] # << >>
  /\ \A k \in 1..Len(calls[s]) : calls[s][k].out.kind # "text"
  /\ loc[s].error = ""

\* the provider failed on a call of the given roles in iteration i
FailedIn(s, roles, i) ==
  \E k \in 1..Len(calls[s]) :
    /\ calls[s][k].role \in roles /\ calls[s][k].iteration = i
    /\ calls[s][k].out.kind # "text"

\* C29: while the provider fails on every call, the calls of a session are
\* Solver, Critic, Solver, Critic, ... one pair per iteration, with no Judge
\* call and no exception; the call returns after exactly max_iterations
\* iterations with accepted = false, confidence 0.0 and the last Solver error
\* answer as final_answer.  Whatever the other calls did, an iteration in
\* whose Critic or Judge call the provider failed is not accepted.
C29_ProviderFailureEverywhere ==
  \A s \in Sessions :
    /\ EveryCallFailed(s) =>
         /\ pc[s] \notin {"judge", "except", "raised"}
         /\ Len(calls[s]) <= 2 * cfg.max_iterations
         /\ \A k \in 1..Len(calls[s]) :
              /\ calls[s][k].role = (IF k % 2 = 1 THEN "Solver" ELSE "Critic")
              /\ calls[s][k].iteration = (k + 1) \div 2
         /\ Returned(s) =>
              /\ Len(calls[s]) = 2 * cfg.max_iterations
              /\ Len(result[s].iterations) = cfg.max_iterations
              /\ ~result[s].accepted
              /\ result[s].confidence = 0
              /\ result[s].final_answer =
                   << << "I encountered an error while solving this problem: ",
                         ErrorText(calls[s][Len(calls[s]) - 1].out) >> >>
    /\ \A i \in 1..Len(loc[s].iterations) :
         FailedIn(s, {"Critic", "Judge"}, i) => ~loc[s].iterations[i].accepted

\* a call that has returned after MaxIter iterations in which the provider
\* failed on every call, once at least by answering without content
C29_Witness ==
  \E s \in Sessions :
    /\ EveryCallFailed(s) /\ Returned(s)
    /\ Len(result[s].iterations) = MaxIter
    /\ \E k \in 1..Len(calls[s]) : calls[s][k].out.kind = "none"

\* the recorded iterations of a result in which the Judge was called
Judged(r) == {i \in 1..Len(r.iterations) : r.iterations[i].judge_response # None}

\* session s returns in this step
Returns(s) == pc[s] # "returned" /\ pc'[s] = "returned"

\* the record of session s holds the entries of the role calls of s, in
\* call order
OwnRecord(s, record) ==
  /\ record.session_id = s
  /\ OwnEntries(s, record.interactions)
  /\ \A k \in 1..Len(calls[s]) :
       k > 1 => \/ calls[s][k - 1].iteration < calls[s][k].iteration /\ calls[s][k].role = "Solver"
                \/ /\ calls[s][k - 1].iteration = calls[s][k].iteration
                   /\ << calls[s][k - 1].role, calls[s][k].role >>
                        \in {<< "Solver", "Critic" >>, << "Critic", "Judge" >>}

\* C30 as stated: a process call that returns has persisted one session
\* record under its session id, holding exactly the entries of its own role
\* calls in call order, 2 * len(iterations) + the number of iterations with
\* a JudgeResponse of them, and leaves the logger with no active session and
\* an empty interaction buffer; the records of earlier calls stay as written.
C30_OneRecordPerCall ==
  [][\A s \in Sessions :
       /\ Returns(s) =>
            /\ s \notin DOMAIN files /\ s \in DOMAIN files'
            /\ OwnRecord(s, files'[s])
            /\ Len(files'[s].interactions) =
                 2 * Len(result'[s].iterations) + Cardinality(Judged(result'[s]))
            /\ logger' = NewLogger
       /\ s \in DOMAIN files => (s \in DOMAIN files' /\ files'[s] = files[s])]_vars

\* C30 amended: as stated, the number of entries being 2 * len(iterations)
\* + the number of iterations with a JudgeResponse for a call that returns
\* without system error; the record of a call ended by a system error holds
\* in addition the entries of the role calls of the iteration under way.
C30_OneRecordPerReturn ==
  [][\A s \in Sessions :
       /\ Returns(s) =>
            /\ s \notin DOMAIN files /\ s \in DOMAIN files'
            /\ OwnRecord(s, files'[s])
            /\ LET n == 2 * Len(result'[s].iterations) + Cardinality(Judged(result'[s]))
               IN IF "error" \notin DOMAIN result'[s].metadata
                  THEN Len(files'[s].interactions) = n
                  ELSE Len(files'[s].interactions) \in n..(n + 3)
            /\ logger' = NewLogger
       /\ s \in DOMAIN files => (s \in DOMAIN files' /\ files'[s] = files[s])]_vars

\* the second of two consecutive calls has returned after two iterations,
\* with three role calls in one of them, the record of the first call being
\* on file with the entries of its own calls
C30_Witness ==
  /\ Returned("s1") /\ ReturnedNormally("s2")
  /\ "s1" \in DOMAIN files /\ "s2" \in DOMAIN files
  /\ Len(result["s2"].iterations) = 2
  /\ Len(files["s2"].interactions) = 5
  /\ Len(files["s1"].interactions) = Len(calls["s1"])
  /\ logger = NewLogger

====
